---- MODULE Spec2Model ----
(***************************************************************************)
(* QSimulateX: the simulation session (QuantumCircuit), the gate library,  *)
(* the dense / sparse operator expansion, the tensor-contraction backend,  *)
(* the circuit optimizer, the measurement sampler and the JSON interchange *)
(* format, as a state machine.                                             *)
(*                                                                         *)
(* Amplitudes are exact: an amplitude is an element of Z[w], w = e^(i pi/4)*)
(* written <<a, b, c, d>> for a + b w + c w^2 + d w^3, and a vector or a   *)
(* matrix carries one exponent k, its value being the entries divided by   *)
(* sqrt(2)^k.  Angles are integers, in units of pi/2 (2 pi is 4 units).    *)
(***************************************************************************)
EXTENDS Integers, Sequences, FiniteSets, TLC

\* ------------------------------------------------------------------ bounds
\* register sizes offered to the constructor: 0 .. MaxQubits
MaxQubits == 3
\* longest program built by add_gate
MaxGates == 2
\* largest shot count passed to measure
MaxShots == 2

\* The period of a rotation angle as the optimizer takes it: 2 pi, in units
\* of pi/2.
TwoPi == 4

None == "None"

\* ------------------------------------------------- complex arithmetic, exact
Zero == <<0, 0, 0, 0>>
One == <<1, 0, 0, 0>>
ImagI == <<0, 0, 1, 0>>
Omega == <<0, 1, 0, 0>>

ANeg(x) == <<0 - x[1], 0 - x[2], 0 - x[3], 0 - x[4]>>

AAdd(x, y) == <<x[1] + y[1], x[2] + y[2], x[3] + y[3], x[4] + y[4]>>

\* product in Z[w], w^4 = -1
AMul(x, y) ==
    IF x = Zero \/ y = Zero THEN Zero
    ELSE IF x = One THEN y
    ELSE IF y = One THEN x
    ELSE <<x[1]*y[1] - x[2]*y[4] - x[3]*y[3] - x[4]*y[2],
           x[1]*y[2] + x[2]*y[1] - x[3]*y[4] - x[4]*y[3],
           x[1]*y[3] + x[2]*y[2] + x[3]*y[1] - x[4]*y[4],
           x[1]*y[4] + x[2]*y[3] + x[3]*y[2] + x[4]*y[1]>>

\* w^u, u >= 0
RECURSIVE OmegaPow(_)
OmegaPow(u) == IF u = 0 THEN One ELSE AMul(Omega, OmegaPow(u - 1))

\* x is a multiple of sqrt(2) = w - w^3 in Z[w]
DivisibleBySqrt2(x) == (x[1] + x[3]) % 2 = 0 /\ (x[2] + x[4]) % 2 = 0

DivSqrt2(x) ==
    <<(x[2] - x[4]) \div 2, (x[1] + x[3]) \div 2,
      (x[2] + x[4]) \div 2, (x[3] - x[1]) \div 2>>

\* |x|^2 = p + q sqrt(2), as <<p, q>>
AbsSq(x) ==
    <<x[1]*x[1] + x[2]*x[2] + x[3]*x[3] + x[4]*x[4],
      x[1]*x[2] + x[2]*x[3] + x[3]*x[4] - x[4]*x[1]>>

RECURSIVE Pow2(_)
Pow2(n) == IF n <= 0 THEN 1 ELSE 2 * Pow2(n - 1)

\* a vector [k, v] in lowest terms: the same value with the least exponent
RECURSIVE Canon(_)
Canon(s) ==
    IF s.k > 0 /\ \A i \in 1..Len(s.v) : DivisibleBySqrt2(s.v[i])
    THEN Canon([k |-> s.k - 1, v |-> [i \in 1..Len(s.v) |-> DivSqrt2(s.v[i])]])
    ELSE s

RECURSIVE SumAbsSq(_, _)
SumAbsSq(v, i) ==
    IF i = 0 THEN <<0, 0>>
    ELSE LET r == SumAbsSq(v, i - 1)
             t == AbsSq(v[i])
         IN <<r[1] + t[1], r[2] + t[2]>>

\* the squared magnitudes of s sum to 1
UnitNorm(s) == SumAbsSq(s.v, Len(s.v)) = <<Pow2(s.k), 0>>

\* ------------------------------------------------------------ qubit.py
create_multi_qubit_state(n, index) ==
    [k |-> 0, v |-> [i \in 1..Pow2(n) |-> IF i = index + 1 THEN One ELSE Zero]]

\* ------------------------------------------------------------ gates.py
\* a matrix is [k, d, m]: side d, rows m[1..d], value m / sqrt(2)^k
Mat(k, rows) == [k |-> k, d |-> Len(rows), m |-> rows]

pauli_x == Mat(0, << <<Zero, One>>, <<One, Zero>> >>)
pauli_y == Mat(0, << <<Zero, ANeg(ImagI)>>, <<ImagI, Zero>> >>)
pauli_z == Mat(0, << <<One, Zero>>, <<Zero, ANeg(One)>> >>)
\* H without the factor 1/sqrt(2)
hadamard_unnormalised == Mat(0, << <<One, One>>, <<One, ANeg(One)>> >>)

hadamard == Mat(1, << <<One, One>>, <<One, ANeg(One)>> >>)
t_gate == Mat(0, << <<One, Zero>>, <<Zero, Omega>> >>)
s_gate == Mat(0, << <<One, Zero>>, <<Zero, ImagI>> >>)

\* cos(u pi/4) and sin(u pi/4) times sqrt(2)^(u % 2), as integers
CosQ(u) == <<1, 1, 0, -1, -1, -1, 0, 1>>[(u % 8) + 1]
SinQ(u) == <<0, 1, 1, 1, 0, -1, -1, -1>>[(u % 8) + 1]
Real(c) == <<c, 0, 0, 0>>

\* theta is in units of pi/2, so theta/2 is theta units of pi/4
rx(theta) ==
    Mat(theta % 2,
        << <<Real(CosQ(theta)), AMul(ANeg(ImagI), Real(SinQ(theta)))>>,
           <<AMul(ANeg(ImagI), Real(SinQ(theta))), Real(CosQ(theta))>> >>)

ry(theta) ==
    Mat(theta % 2,
        << <<Real(CosQ(theta)), Real(0 - SinQ(theta))>>,
           <<Real(SinQ(theta)), Real(CosQ(theta))>> >>)

rz(theta) ==
    Mat(0, << <<OmegaPow((8 - (theta % 8)) % 8), Zero>>,
              <<Zero, OmegaPow(theta % 8)>> >>)

phase(phi) == Mat(0, << <<One, Zero>>, <<Zero, OmegaPow((2 * phi) % 8)>> >>)

cnot ==
    Mat(0, << <<One, Zero, Zero, Zero>>, <<Zero, One, Zero, Zero>>,
              <<Zero, Zero, Zero, One>>, <<Zero, Zero, One, Zero>> >>)

cz ==
    Mat(0, << <<One, Zero, Zero, Zero>>, <<Zero, One, Zero, Zero>>,
              <<Zero, Zero, One, Zero>>, <<Zero, Zero, Zero, ANeg(One)>> >>)

swap ==
    Mat(0, << <<One, Zero, Zero, Zero>>, <<Zero, Zero, One, Zero>>,
              <<Zero, One, Zero, Zero>>, <<Zero, Zero, Zero, One>> >>)

\* np.eye(d)
Eye(d) ==
    Mat(0, [i \in 1..d |-> [j \in 1..d |-> IF i = j THEN One ELSE Zero]])

\* the identity of side 8 with rows 6 and 7 exchanged
toffoli ==
    Mat(0, [i \in 1..8 |-> [j \in 1..8 |->
               IF (i <= 6 /\ i = j) \/ (i = 7 /\ j = 8) \/ (i = 8 /\ j = 7)
               THEN One ELSE Zero]])

GATE_MAP ==
    [X |-> pauli_x, Y |-> pauli_y, Z |-> pauli_z, H |-> hadamard,
     T |-> t_gate, S |-> s_gate, CNOT |-> cnot, CZ |-> cz, SWAP |-> swap,
     TOFFOLI |-> toffoli]

\* params.get(key, 0)
ParamGet(params, key) == IF key \in DOMAIN params THEN params[key] ELSE 0

\* what an operation that builds a matrix or a vector yields when it raises
NoMatrix == [k |-> 0, d |-> 0, m |-> << >>]
NoVector == [k |-> 0, v |-> << >>]

\* a lookup that rejects a rotation without theta and a phase without phi
get_gate_required_params(gate_name, params) ==
    IF gate_name \in DOMAIN GATE_MAP THEN GATE_MAP[gate_name]
    ELSE IF gate_name \in {"RX", "RY", "RZ"} /\ "theta" \notin DOMAIN params
    THEN NoMatrix
    ELSE IF gate_name = "PHASE" /\ "phi" \notin DOMAIN params THEN NoMatrix
    ELSE IF gate_name = "RX" THEN rx(params["theta"])
    ELSE IF gate_name = "RY" THEN ry(params["theta"])
    ELSE IF gate_name = "RZ" THEN rz(params["theta"])
    ELSE IF gate_name = "PHASE" THEN phase(params["phi"])
    ELSE NoMatrix

\* the matrix of a gate name; NoMatrix when the name is unknown (ValueError)
get_gate(gate_name, params) ==
    IF gate_name \in DOMAIN GATE_MAP THEN GATE_MAP[gate_name]
    ELSE IF gate_name = "RX" THEN rx(ParamGet(params, "theta"))
    ELSE IF gate_name = "RY" THEN ry(ParamGet(params, "theta"))
    ELSE IF gate_name = "RZ" THEN rz(ParamGet(params, "theta"))
    ELSE IF gate_name = "PHASE" THEN phase(ParamGet(params, "phi"))
    ELSE NoMatrix

\* np.kron / scipy.sparse.kron
Kron(A, B) ==
    [k |-> A.k + B.k,
     d |-> A.d * B.d,
     m |-> [i \in 1..(A.d * B.d) |-> [j \in 1..(A.d * B.d) |->
              AMul(A.m[((i - 1) \div B.d) + 1][((j - 1) \div B.d) + 1],
                   B.m[((i - 1) % B.d) + 1][((j - 1) % B.d) + 1])]]]

\* result after the loop "for i in range(from, n)" that multiplies in the
\* gate at position q and the identity elsewhere
RECURSIVE SingleFold(_, _, _, _, _)
SingleFold(result, gate, q, i, n) ==
    IF i >= n THEN result
    ELSE SingleFold(Kron(result, IF i = q THEN gate ELSE Eye(2)), gate, q, i + 1, n)

\* the fold with the gate at the factor counted from the other end
apply_single_qubit_gate_from_last(gate, qubit_index, n, use_sparse) ==
    SingleFold(IF n - 1 - qubit_index = 0 THEN gate ELSE Eye(2), gate,
               n - 1 - qubit_index, 1, n)

\* the dense and the sparse branch are the same fold
apply_single_qubit_gate(gate, qubit_index, n, use_sparse) ==
    SingleFold(IF qubit_index = 0 THEN gate ELSE Eye(2), gate, qubit_index, 1, n)

\* "for i in range(from, to): result = kron(result, identity)"
RECURSIVE PadIdentity(_, _, _)
PadIdentity(result, from, to) ==
    IF from >= to THEN result
    ELSE PadIdentity(Kron(result, Eye(2)), from + 1, to)

\* sparse branch, first loop: "for i in range(0, n, 2)", with its break
RECURSIVE SparseLead(_, _, _, _, _)
SparseLead(result, gate, min_idx, i, n) ==
    IF i >= n THEN result
    ELSE IF i = min_idx THEN Kron(result, gate)
    ELSE SparseLead(Kron(result, Eye(2)), gate, min_idx, i + 2, n)

Min(a, b) == IF a < b THEN a ELSE b
Abs(a) == IF a < 0 THEN 0 - a ELSE a

\* apply_two_qubit_gate without the adjacency test
apply_two_qubit_gate_unchecked(gate, control, target, n, use_sparse) ==
    LET min_idx == Min(control, target) IN
    IF use_sparse
    THEN PadIdentity(SparseLead(Eye(1), gate, min_idx, 0, n), min_idx + 2, n)
    ELSE PadIdentity(Kron(PadIdentity(Eye(1), 0, min_idx), gate), min_idx + 2, n)

\* the full operator of a two-qubit gate; NoMatrix when the pair is not
\* adjacent (NotImplementedError)
apply_two_qubit_gate(gate, control, target, n, use_sparse) ==
    IF Abs(control - target) # 1 THEN NoMatrix
    ELSE LET min_idx == Min(control, target) IN
         IF use_sparse
         THEN PadIdentity(SparseLead(Eye(1), gate, min_idx, 0, n), min_idx + 2, n)
         ELSE PadIdentity(Kron(PadIdentity(Eye(1), 0, min_idx), gate), min_idx + 2, n)

\* ------------------------------------------------------- sparse_utils.py
RECURSIVE DotRow(_, _, _)
DotRow(row, v, j) ==
    IF j = 0 THEN Zero ELSE AAdd(DotRow(row, v, j - 1), AMul(row[j], v[j]))

\* matrix times vector; NoVector when the shapes do not agree (ValueError)
sparse_state_vector_product(matrix, state) ==
    IF matrix.d # Len(state.v) THEN NoVector
    ELSE Canon([k |-> matrix.k + state.k,
                v |-> [i \in 1..matrix.d |-> DotRow(matrix.m[i], state.v, matrix.d)]])

\* the threshold taken at 10 qubits instead of above 10
should_use_sparse_from_ten(n, gate_sparsity) == n >= 10 \/ gate_sparsity > 7

\* gate_sparsity is in tenths; the default is 0.5
should_use_sparse(n, gate_sparsity) == n > 10 \/ gate_sparsity > 7

\* ---------------------------------------------------- tensor_networks.py
\* the value of qubit q in basis index s of an n-qubit register: the tensor
\* is flattened in row-major order, so axis 0 is the most significant bit
BitOf(s, q, n) == (s \div Pow2(n - 1 - q)) % 2

WithBit(s, q, n, b) == s + (b - BitOf(s, q, n)) * Pow2(n - 1 - q)

\* the row of the gate matrix selected by the target qubits' values in s
RECURSIVE GateRow(_, _, _, _)
GateRow(s, qubit_indices, n, j) ==
    IF j = 0 THEN 0
    ELSE 2 * GateRow(s, qubit_indices, n, j - 1) + BitOf(s, qubit_indices[j], n)

\* s with the target qubits' values replaced by the bits of column c
RECURSIVE SourceIndex(_, _, _, _, _)
SourceIndex(s, c, qubit_indices, n, j) ==
    IF j = 0 THEN s
    ELSE WithBit(SourceIndex(s, c \div 2, qubit_indices, n, j - 1),
                 qubit_indices[j], n, c % 2)

RECURSIVE Contract(_, _, _, _, _, _)
Contract(v, gate, s, qubit_indices, n, c) ==
    IF c < 0 THEN Zero
    ELSE AAdd(Contract(v, gate, s, qubit_indices, n, c - 1),
              AMul(gate.m[GateRow(s, qubit_indices, n, Len(qubit_indices)) + 1][c + 1],
                   v[SourceIndex(s, c, qubit_indices, n, Len(qubit_indices)) + 1]))

\* the contraction of the gate with the state tensor at the target axes (the
\* targets are distinct and lie in 0..n-1); NoVector when the matrix cannot
\* be reshaped to one axis pair per target (ValueError)
apply_gate_tensor(state_tensor, gate, qubit_indices, n) ==
    IF gate.d # Pow2(Len(qubit_indices)) THEN NoVector
    ELSE Canon([k |-> state_tensor.k + gate.k,
                v |-> [i \in 1..Pow2(n) |->
                         Contract(state_tensor.v, gate, i - 1, qubit_indices, n,
                                  gate.d - 1)]])

\* ------------------------------------------------------------ optimizer.py
\* A gate record is [gate_name, qubits, params, depth].  Inside the optimizer
\* a record also carries ref: the position of the caller's object it is, or 0
\* for an object created by a rule.
GateNode(gate_name, qubits, params) ==
    [gate_name |-> gate_name, qubits |-> qubits, params |-> params, depth |-> 0]

\* the table with the Pauli gates only
inverse_pairs_paulis_only == {"X", "Y", "Z"}

inverse_pairs == {"X", "Y", "Z", "H", "CNOT"}

RECURSIVE CancelFrom(_, _)
CancelFrom(gates, i) ==
    IF i > Len(gates) THEN << >>
    ELSE IF /\ i + 1 <= Len(gates)
            /\ gates[i].gate_name \in inverse_pairs
            /\ gates[i + 1].gate_name = gates[i].gate_name
            /\ gates[i].qubits = gates[i + 1].qubits
         THEN CancelFrom(gates, i + 2)
         ELSE <<gates[i]>> \o CancelFrom(gates, i + 1)

\* the pass repeated until it drops nothing
RECURSIVE cancel_inverse_gates_fixpoint(_)
cancel_inverse_gates_fixpoint(gates) ==
    LET next == CancelFrom(gates, 1)
    IN IF next = gates THEN gates ELSE cancel_inverse_gates_fixpoint(next)

cancel_inverse_gates(gates) == CancelFrom(gates, 1)

rotation_gates == {"RX", "RY", "RZ"}

\* the inner loop that compares the names only
RECURSIVE RunOfRotations_any_target(_, _, _, _)
RunOfRotations_any_target(gates, i, j, total_angle) ==
    IF /\ j <= Len(gates)
       /\ gates[j].gate_name = gates[i].gate_name
    THEN RunOfRotations_any_target(gates, i, j + 1,
                                   total_angle + ParamGet(gates[j].params, "theta"))
    ELSE [j |-> j, total_angle |-> total_angle]

\* the inner while loop: the end j of the run that starts at i, and the sum
RECURSIVE RunOfRotations(_, _, _, _)
RunOfRotations(gates, i, j, total_angle) ==
    IF /\ j <= Len(gates)
       /\ gates[j].gate_name = gates[i].gate_name
       /\ gates[j].qubits = gates[i].qubits
    THEN RunOfRotations(gates, i, j + 1,
                        total_angle + ParamGet(gates[j].params, "theta"))
    ELSE [j |-> j, total_angle |-> total_angle]

RECURSIVE MergeFrom(_, _)
MergeFrom(gates, i) ==
    IF i > Len(gates) THEN << >>
    ELSE IF gates[i].gate_name \in rotation_gates /\ Len(gates[i].qubits) = 1
         THEN LET r == RunOfRotations(gates, i, i + 1,
                                      ParamGet(gates[i].params, "theta"))
                  merged_gate == [gate_name |-> gates[i].gate_name,
                                  qubits |-> gates[i].qubits,
                                  params |-> ("theta" :> (r.total_angle % TwoPi)),
                                  depth |-> gates[i].depth,
                                  ref |-> 0]
              IN (IF r.total_angle % TwoPi # 0 THEN <<merged_gate>> ELSE << >>)
                 \o MergeFrom(gates, r.j)
         ELSE <<gates[i]>> \o MergeFrom(gates, i + 1)

merge_rotation_gates(gates) == MergeFrom(gates, 1)

Range(seq) == {seq[i] : i \in 1..Len(seq)}

\* a pass over range(len(optimized) - 2): the last pair is not looked at
RECURSIVE CommutePass_short(_, _)
CommutePass_short(optimized, i) ==
    IF i + 2 > Len(optimized) THEN optimized
    ELSE IF /\ Range(optimized[i].qubits) \cap Range(optimized[i + 1].qubits) = {}
            /\ optimized[i + 1].depth > optimized[i].depth
         THEN CommutePass_short([optimized EXCEPT ![i + 1].depth = optimized[i].depth],
                                i + 1)
         ELSE CommutePass_short(optimized, i + 1)

\* a pass that moves the deeper gate of a disjoint pair in front of the other
RECURSIVE CommutePass_swapping(_, _)
CommutePass_swapping(optimized, i) ==
    IF i + 1 > Len(optimized) THEN optimized
    ELSE IF /\ Range(optimized[i].qubits) \cap Range(optimized[i + 1].qubits) = {}
            /\ optimized[i + 1].depth > optimized[i].depth
         THEN CommutePass_swapping(
                  [optimized EXCEPT ![i] = optimized[i + 1],
                                    ![i + 1] = optimized[i]], i + 1)
         ELSE CommutePass_swapping(optimized, i + 1)

\* one "for i in range(len(optimized) - 1)" pass, from position i on
RECURSIVE CommutePass(_, _)
CommutePass(optimized, i) ==
    IF i + 1 > Len(optimized) THEN optimized
    ELSE IF /\ Range(optimized[i].qubits) \cap Range(optimized[i + 1].qubits) = {}
            /\ optimized[i + 1].depth > optimized[i].depth
         THEN CommutePass([optimized EXCEPT ![i + 1].depth = optimized[i].depth],
                          i + 1)
         ELSE CommutePass(optimized, i + 1)

\* "while changed": passes until one changes nothing
RECURSIVE commute_gates(_)
commute_gates(gates) ==
    LET next == CommutePass(gates, 1)
    IN IF next = gates THEN gates ELSE commute_gates(next)

optimization_rules == <<"cancel_inverse", "merge_rotations", "commute_gates">>

\* the value of the rules argument when the caller leaves it out
NoRules == <<None>>

ApplyRule(rule_name, gates) ==
    IF rule_name = "cancel_inverse" THEN cancel_inverse_gates(gates)
    ELSE IF rule_name = "merge_rotations" THEN merge_rotation_gates(gates)
    ELSE IF rule_name = "commute_gates" THEN commute_gates(gates)
    ELSE gates

\* the caller's records after a rule has run: a rule that assigns to a field
\* of a record assigns to the caller's object
WriteBack(input, optimized) ==
    [i \in 1..Len(input) |->
        IF \E j \in 1..Len(optimized) : optimized[j].ref = i
        THEN LET j == CHOOSE j \in 1..Len(optimized) : optimized[j].ref = i
             IN [gate_name |-> optimized[j].gate_name,
                 qubits |-> optimized[j].qubits,
                 params |-> optimized[j].params,
                 depth |-> optimized[j].depth]
        ELSE input[i]]

\* the pipeline taking the rules from the end of the list first
RECURSIVE OptimizeFrom_reversed(_, _, _, _)
OptimizeFrom_reversed(optimized, input, rules, r) ==
    IF r > Len(rules) THEN [optimized |-> optimized, input |-> input]
    ELSE LET next == ApplyRule(rules[Len(rules) + 1 - r], optimized)
         IN OptimizeFrom_reversed(next, WriteBack(input, next), rules, r + 1)

\* the pipeline from rule r on: [optimized, input]
RECURSIVE OptimizeFrom(_, _, _, _)
OptimizeFrom(optimized, input, rules, r) ==
    IF r > Len(rules) THEN [optimized |-> optimized, input |-> input]
    ELSE LET next == ApplyRule(rules[r], optimized)
         IN OptimizeFrom(next, WriteBack(input, next), rules, r + 1)

\* gates.copy() is a list of the same objects
CopyList(gates) ==
    [i \in 1..Len(gates) |->
        [gate_name |-> gates[i].gate_name, qubits |-> gates[i].qubits,
         params |-> gates[i].params, depth |-> gates[i].depth, ref |-> i]]

\* optimize that rewrites the caller's list to the optimized one
optimize_in_place(gates, rules) ==
    LET o == OptimizeFrom(CopyList(gates), gates,
                          IF rules = NoRules THEN optimization_rules ELSE rules, 1)
    IN [optimized |-> o.optimized,
        input |-> [i \in 1..Len(o.optimized) |->
                     [gate_name |-> o.optimized[i].gate_name,
                      qubits |-> o.optimized[i].qubits,
                      params |-> o.optimized[i].params,
                      depth |-> o.optimized[i].depth]]]

\* optimize(gates, rules): the returned list, and the caller's list afterwards
optimize(gates, rules) ==
    OptimizeFrom(CopyList(gates), gates,
                 IF rules = NoRules THEN optimization_rules ELSE rules, 1)

\* max(values) of a non-empty set of integers
SetMax(values) == CHOOSE m \in values : \A v \in values : v <= m

\* qubit_depths after the first i gates: a function from the qubits touched
\* so far to their depth
RECURSIVE QubitDepths(_, _)
QubitDepths(gates, i) ==
    IF i = 0 THEN << >>
    ELSE LET qubit_depths == QubitDepths(gates, i - 1)
             targets == Range(gates[i].qubits)
             max_depth == SetMax({0} \cup {qubit_depths[q] :
                                              q \in targets \cap DOMAIN qubit_depths})
             new_depth == max_depth + 1
         IN [q \in DOMAIN qubit_depths \cup targets |->
                IF q \in targets THEN new_depth ELSE qubit_depths[q]]

\* what calculate_circuit_depth yields when no gate of a non-empty list has a
\* target: max() of an empty sequence raises ValueError
NoDepth == 0 - 1

\* a depth that counts one level per gate
calculate_circuit_depth_per_gate(gates) == Len(gates)

calculate_circuit_depth(gates) ==
    IF gates = << >> THEN 0
    ELSE LET qubit_depths == QubitDepths(gates, Len(gates))
         IN IF DOMAIN qubit_depths = {} THEN NoDepth
            ELSE SetMax({qubit_depths[q] : q \in DOMAIN qubit_depths})

\* estimate_gate_count: the number of gates of each name in the list
estimate_gate_count(gates) ==
    [name \in {gates[i].gate_name : i \in 1..Len(gates)} |->
        Cardinality({i \in 1..Len(gates) : gates[i].gate_name = name})]

\* -------------------------------------------------------------- measure.py
\* get_probabilities: the basis indices of nonzero probability
Support(state) == {i \in 0..(Len(state.v) - 1) : state.v[i + 1] # Zero}

\* the lists np.random.choice(n_states, size=shots, p=probs) can return; no
\* list when probs does not sum to 1 (ValueError)
measure(state, shots) ==
    IF UnitNorm(state) THEN [1..shots -> Support(state)] ELSE {}

\* sorted(list): the smallest element first, then the rest sorted
RECURSIVE Sorted(_)
Sorted(list) ==
    IF list = << >> THEN << >>
    ELSE LET least == CHOOSE i \in 1..Len(list) :
                          \A j \in 1..Len(list) : list[i] <= list[j]
         IN <<list[least]>>
            \o Sorted([j \in 1..(Len(list) - 1) |->
                          IF j < least THEN list[j] ELSE list[j + 1]])

\* (index >> qubit_idx) & 1
ShiftBit(index, qubit_idx) == (index \div Pow2(qubit_idx)) % 2

\* partial_measure, lines 96-100: bit i of the value is the outcome's bit at
\* the i-th of the sorted indices
RECURSIVE PackBits(_, _, _)
PackBits(outcome, sorted, i) ==
    IF i = 0 THEN 0
    ELSE PackBits(outcome, sorted, i - 1)
         + ShiftBit(outcome, sorted[i]) * Pow2(i - 1)

\* partial_measure, lines 106-114: index i agrees with the outcome on every
\* listed qubit
Consistent(i, outcome, qubit_indices) ==
    \A j \in 1..Len(qubit_indices) :
        ShiftBit(i, qubit_indices[j]) = ShiftBit(outcome, qubit_indices[j])

NoMass == <<0 - 1, 0>>

\* post_state / np.sqrt(norm_sq), norm_sq = mass / 2^k: the kept amplitudes
\* over sqrt(mass). The quotient is written [k, v] when the mass is a power
\* of two, which it is for every vector of equal magnitudes on its support
DivideBySqrt(kept, mass) ==
    IF \E j \in 0..kept.k : mass = <<Pow2(j), 0>>
    THEN [k |-> CHOOSE j \in 0..kept.k : mass = <<Pow2(j), 0>>, v |-> kept.v]
    ELSE NoVector

\* the kept amplitudes returned without the division
partial_measure_unnormalised(state, qubit_indices, n, outcome) ==
    [measured_value |->
         PackBits(outcome, Sorted(qubit_indices),
                  Len(qubit_indices)),
     post_state |->
         [k |-> state.k,
          v |-> [i \in 1..Len(state.v) |->
                    IF Consistent(i - 1, outcome, qubit_indices)
                    THEN state.v[i] ELSE Zero]],
     norm_sq |-> NoMass,
     state |-> state]

\* partial_measure for the outcome np.random.choice drew:
\* [measured_value, post_state], with norm_sq (in units of 1 / 2^k) and the
\* caller's vector as the call leaves it
partial_measure(state, qubit_indices, n, outcome) ==
    LET kept == [k |-> state.k,
                 v |-> [i \in 1..Len(state.v) |->
                           IF Consistent(i - 1, outcome, qubit_indices)
                           THEN state.v[i] ELSE Zero]]
        norm_sq == SumAbsSq(kept.v, Len(kept.v))
    IN [measured_value |->
            PackBits(outcome, Sorted(qubit_indices),
                     Len(qubit_indices)),
        post_state |-> IF norm_sq # <<0, 0>> THEN DivideBySqrt(kept, norm_sq)
                       ELSE kept,
        norm_sq |-> norm_sq,
        state |-> state]

RECURSIVE Log2(_)
Log2(len) == IF len <= 1 THEN 0 ELSE 1 + Log2(len \div 2)

\* format(outcome, 'b'): the binary digits, most significant first
RECURSIVE Bin(_)
Bin(x) ==
    IF x < 2 THEN <<IF x = 1 THEN "1" ELSE "0">>
    ELSE Bin(x \div 2) \o <<IF x % 2 = 1 THEN "1" ELSE "0">>

\* format(outcome, '0{width}b'): zero-padded on the left to at least width
RECURSIVE ZeroPad(_, _)
ZeroPad(digits, width) ==
    IF Len(digits) >= width THEN digits ELSE ZeroPad(<<"0">> \o digits, width)

Format(outcome, width) == ZeroPad(Bin(outcome), width)

\* the loop over the outcomes: counts[key] = counts.get(key, 0) + 1
RECURSIVE Tally(_, _, _)
Tally(outcomes, width, i) ==
    IF i = 0 THEN << >>
    ELSE LET counts == Tally(outcomes, width, i - 1)
             binary_str == Format(outcomes[i], width)
         IN IF binary_str \in DOMAIN counts
            THEN [counts EXCEPT ![binary_str] = @ + 1]
            ELSE counts @@ (binary_str :> 1)

\* the table measure_counts builds from one list of sampled outcomes
measure_counts(state, outcomes) == Tally(outcomes, Log2(Len(state.v)), Len(outcomes))

\* ------------------------------------------------------------- circuits.py
\* to_json: the interchange document of a program
to_json(n, gate_list) ==
    [n_qubits |-> n,
     gates |-> [i \in 1..Len(gate_list) |->
                  [gate |-> gate_list[i].gate_name,
                   qubits |-> gate_list[i].qubits,
                   params |-> gate_list[i].params]]]

\* from_json that passes no parameters on to add_gate
from_json_without_params(data) ==
    [i \in 1..Len(data.gates) |->
        GateNode(data.gates[i].gate, data.gates[i].qubits, << >>)]

\* from_json: the gate list add_gate builds from a document;
\* gate_data.get('params', {})
from_json(data) ==
    [i \in 1..Len(data.gates) |->
        GateNode(data.gates[i].gate,
                 data.gates[i].qubits,
                 IF "params" \in DOMAIN data.gates[i]
                 THEN data.gates[i].params ELSE << >>)]

\* ------------------------------------------------------------------ inputs
G(gate_name, qubits, params) ==
    [gate_name |-> gate_name, qubits |-> qubits, params |-> params]

NoParams == << >>
Theta(t) == "theta" :> t

\* the gates offered to add_gate on a register of n qubits: every target is
\* in 0..n-1 and the targets of one gate are distinct
Catalogue(n) ==
    IF n = 0 THEN {}
    ELSE IF n = 1 THEN
        {G("X", <<0>>, NoParams), G("Z", <<0>>, NoParams),
         G("H", <<0>>, NoParams),
         G("T", <<0>>, NoParams), G("RX", <<0>>, Theta(1)),
         G("RX", <<0>>, Theta(2)), G("RZ", <<0>>, Theta(4)),
         G("FOO", <<0>>, NoParams)}
    ELSE IF n = 2 THEN
        {G("X", <<1>>, NoParams), G("H", <<0>>, NoParams),
         G("S", <<1>>, NoParams), G("CNOT", <<0, 1>>, NoParams),
         G("CNOT", <<1, 0>>, NoParams), G("SWAP", <<0, 1>>, NoParams),
         G("FOO", <<0, 1>>, NoParams)}
    ELSE IF n = 3 THEN
        {G("H", <<0>>, NoParams), G("CNOT", <<0, 1>>, NoParams),
         G("CNOT", <<1, 2>>, NoParams), G("CNOT", <<0, 2>>, NoParams),
         G("TOFFOLI", <<0, 1, 2>>, NoParams), G("Z", <<0, 1, 2>>, NoParams),
         G("FOO", <<0, 1, 2>>, NoParams)}
    ELSE
        {G("H", <<n - 2>>, NoParams), G("CZ", <<n - 2, n - 1>>, NoParams),
         G("CNOT", <<0, n - 1>>, NoParams)}

\* the arguments of the constructor's use_sparse parameter
SparseArgs == {"None", "True", "False"}

\* documents offered to from_json: the programs of one or two catalogue
\* gates, each gate with or without its params field
JsonGates(n) ==
    {[gate |-> g.gate_name, qubits |-> g.qubits, params |-> g.params] :
        g \in Catalogue(n)}
    \cup {[gate |-> g.gate_name, qubits |-> g.qubits] : g \in Catalogue(n)}

JsonDocs ==
    {[n_qubits |-> n, gates |-> << >>] : n \in 0..MaxQubits}
    \cup {[n_qubits |-> 1, gates |-> <<a>>] : a \in JsonGates(1)}
    \cup {[n_qubits |-> 2, gates |-> <<a, b>>] :
             a \in JsonGates(2), b \in JsonGates(2)}

\* ------------------------------------------------------------------- state
VARIABLES
    n_qubits,            \* QuantumCircuit.n_qubits
    use_sparse,          \* QuantumCircuit.use_sparse
    use_tensor_network,  \* QuantumCircuit.use_tensor_network
    state,               \* QuantumCircuit.state, the visible amplitude vector
    gates,               \* QuantumCircuit.gates, the program
    pc,                  \* "idle", or where run is: "loop" (dense / sparse), "tn"
    gates_to_run,        \* run's local: the executed sequence (kept until
                         \* the next call)
    k,                   \* gates of gates_to_run applied so far
    state_tensor,        \* tensor_network_simulator's local tensor
    last,                \* the last call: [op, optimize, err, shots]
    counts,              \* the outcome table the last measure returned
    doc,                 \* the document the last to_json returned or from_json read
    args,                \* SpecCalls: the arguments of a direct call of a function
    returned,            \* SpecCalls: what that call returned or raised
    np_random,           \* SpecSampling: numpy's process-wide generator
    sessions             \* SpecSampling: the sessions that share the process

\* the fields and locals of the one session of Spec
session == <<n_qubits, use_sparse, use_tensor_network, state, gates, pc,
             gates_to_run, k, state_tensor, last, counts, doc>>

\* what Spec leaves aside: it follows one session, and draws the outcomes of
\* measure freely in place of following the generator
outside == <<args, returned, np_random, sessions>>

vars == <<n_qubits, use_sparse, use_tensor_network, state, gates, pc,
          gates_to_run, k, state_tensor, last, counts, doc,
          args, returned, np_random, sessions>>

NoArgs == [fn |-> "none"]
NoReturn == [fn |-> "none"]
NoGenerator == [stream |-> << >>, pos |-> 0]
NoSessions == << >>

NoCounts == << >>
NoDoc == [n_qubits |-> 0, gates |-> << >>]
Call(op, optimize_arg, err) ==
    [op |-> op, optimize |-> optimize_arg, err |-> err, shots |-> 0]

\* the Python exception class of each failure
ErrType(err) ==
    IF err \in {"UnknownGate", "ShapeMismatch"} THEN "ValueError"
    ELSE IF err \in {"UnsupportedArity", "UnsupportedTopology"}
    THEN "NotImplementedError"
    ELSE "none"

\* QuantumCircuit.__init__: the fields of the new session
Construct(n, sparse_arg, tn) ==
    [n_qubits |-> n,
     use_tensor_network |-> tn,
     use_sparse |-> IF sparse_arg = "None" THEN should_use_sparse(n, 5)
                    ELSE sparse_arg = "True",
     state |-> create_multi_qubit_state(n, 0),
     gates |-> << >>]

Init ==
    /\ \E n \in 0..MaxQubits, sparse_arg \in SparseArgs, tn \in BOOLEAN :
           LET c == Construct(n, sparse_arg, tn)
           IN /\ n_qubits = c.n_qubits
              /\ use_sparse = c.use_sparse
              /\ use_tensor_network = c.use_tensor_network
              /\ state = c.state
              /\ gates = c.gates
    /\ pc = "idle"
    /\ gates_to_run = << >>
    /\ k = 0
    /\ state_tensor = NoVector
    /\ last = Call("init", FALSE, "none")
    /\ counts = NoCounts
    /\ doc = NoDoc
    /\ args = NoArgs
    /\ returned = NoReturn
    /\ np_random = NoGenerator
    /\ sessions = NoSessions

\* add_gate(gate_name, qubits, **params)
AddGate(g) ==
    /\ pc = "idle"
    /\ Len(gates) < MaxGates
    /\ gates' = Append(gates, GateNode(g.gate_name, g.qubits, g.params))
    /\ last' = Call("add_gate", FALSE, "none")
    /\ counts' = NoCounts
    /\ doc' = NoDoc
    /\ gates_to_run' = << >>
    /\ k' = 0
    /\ state_tensor' = NoVector
    /\ UNCHANGED <<n_qubits, use_sparse, use_tensor_network, state, pc>>
    /\ UNCHANGED outside

\* the index of the first gate of the list whose name get_gate rejects, or 0
FirstUnknown(gate_list) ==
    IF \E i \in 1..Len(gate_list) :
           get_gate(gate_list[i].gate_name, gate_list[i].params) = NoMatrix
    THEN CHOOSE i \in 1..Len(gate_list) :
           /\ get_gate(gate_list[i].gate_name, gate_list[i].params) = NoMatrix
           /\ \A j \in 1..(i - 1) :
                  get_gate(gate_list[j].gate_name, gate_list[j].params) # NoMatrix
    ELSE 0

\* run, lines 123-138: the optional optimization, then either the list of
\* gate tuples for the tensor backend or the reset of the state
RunBegin(optimize_arg) ==
    /\ pc = "idle"
    /\ counts' = NoCounts
    /\ doc' = NoDoc
    /\ LET o == IF optimize_arg THEN optimize(gates, NoRules)
                ELSE [optimized |-> CopyList(gates), input |-> gates]
       IN /\ gates' = o.input
          /\ gates_to_run' = o.optimized
          /\ IF use_tensor_network
             THEN /\ state' = state
                  /\ IF FirstUnknown(o.optimized) # 0
                     THEN /\ pc' = "idle"
                          /\ k' = 0
                          /\ state_tensor' = NoVector
                          /\ last' = Call("run", optimize_arg, "UnknownGate")
                     ELSE /\ pc' = "tn"
                          /\ k' = 0
                          /\ state_tensor' = create_multi_qubit_state(n_qubits, 0)
                          /\ last' = Call("running", optimize_arg, "none")
             ELSE /\ state' = create_multi_qubit_state(n_qubits, 0)
                  /\ pc' = "loop"
                  /\ k' = 0
                  /\ state_tensor' = NoVector
                  /\ last' = Call("running", optimize_arg, "none")
    /\ UNCHANGED <<n_qubits, use_sparse, use_tensor_network>>
    /\ UNCHANGED outside

\* the operator of one gate with the target count tested before the name
FullGate_arity_first(gate_node, n, sparse) ==
    LET gate_matrix == get_gate(gate_node.gate_name, gate_node.params) IN
    IF Len(gate_node.qubits) \notin {1, 2}
    THEN [err |-> "UnsupportedArity", op |-> NoMatrix]
    ELSE IF gate_matrix = NoMatrix THEN [err |-> "UnknownGate", op |-> NoMatrix]
    ELSE IF Len(gate_node.qubits) = 1
    THEN [err |-> "none",
          op |-> apply_single_qubit_gate(gate_matrix, gate_node.qubits[1], n, sparse)]
    ELSE LET full_gate == apply_two_qubit_gate(gate_matrix, gate_node.qubits[1],
                                               gate_node.qubits[2], n, sparse)
         IN IF full_gate = NoMatrix
            THEN [err |-> "UnsupportedTopology", op |-> NoMatrix]
            ELSE [err |-> "none", op |-> full_gate]

\* the operator run builds for one gate, lines 141-155; err names the failure
FullGate(gate_node, n, sparse) ==
    LET gate_matrix == get_gate(gate_node.gate_name, gate_node.params) IN
    IF gate_matrix = NoMatrix THEN [err |-> "UnknownGate", op |-> NoMatrix]
    ELSE IF Len(gate_node.qubits) = 1
    THEN [err |-> "none",
          op |-> apply_single_qubit_gate(gate_matrix, gate_node.qubits[1], n, sparse)]
    ELSE IF Len(gate_node.qubits) = 2
    THEN LET full_gate == apply_two_qubit_gate(gate_matrix, gate_node.qubits[1],
                                               gate_node.qubits[2], n, sparse)
         IN IF full_gate = NoMatrix
            THEN [err |-> "UnsupportedTopology", op |-> NoMatrix]
            ELSE [err |-> "none", op |-> full_gate]
    ELSE [err |-> "UnsupportedArity", op |-> NoMatrix]

\* an iteration that resets the vector when it fails
ApplyGate_rollback(gate_node, s, n, sparse) ==
    LET f == FullGate(gate_node, n, sparse) IN
    IF f.err # "none"
    THEN [err |-> f.err, state |-> create_multi_qubit_state(n, 0)]
    ELSE LET product == sparse_state_vector_product(f.op, s)
         IN IF product = NoVector
            THEN [err |-> "ShapeMismatch", state |-> create_multi_qubit_state(n, 0)]
            ELSE [err |-> "none", state |-> product]

\* one iteration of run's loop, lines 140-157: [err, state]
ApplyGate(gate_node, s, n, sparse) ==
    LET f == FullGate(gate_node, n, sparse) IN
    IF f.err # "none" THEN [err |-> f.err, state |-> s]
    ELSE LET product == sparse_state_vector_product(f.op, s)
         IN IF product = NoVector THEN [err |-> "ShapeMismatch", state |-> s]
            ELSE [err |-> "none", state |-> product]

\* run's loop on the dense / sparse path from gate kk + 1 on, lines 138-159:
\* [err, state, k], k the number of gates applied
RECURSIVE Execute(_, _, _, _, _)
Execute(gate_list, s, kk, n, sparse) ==
    IF kk >= Len(gate_list) THEN [err |-> "none", state |-> s, k |-> kk]
    ELSE LET r == ApplyGate(gate_list[kk + 1], s, n, sparse)
         IN IF r.err # "none" THEN [err |-> r.err, state |-> s, k |-> kk]
            ELSE Execute(gate_list, r.state, kk + 1, n, sparse)

\* tensor_network_simulator's loop from gate kk + 1 on: [err, state, k]
RECURSIVE Contractions(_, _, _, _)
Contractions(gate_list, t, kk, n) ==
    IF kk >= Len(gate_list) THEN [err |-> "none", state |-> t, k |-> kk]
    ELSE LET g == gate_list[kk + 1]
             r == apply_gate_tensor(t, get_gate(g.gate_name, g.params), g.qubits, n)
         IN IF r = NoVector THEN [err |-> "ShapeMismatch", state |-> t, k |-> kk]
            ELSE Contractions(gate_list, r, kk + 1, n)

\* run on the tensor path, lines 128-135: held is the session's vector when
\* run is called, which a failing run leaves in place
ExecuteTensor(gate_list, n, held) ==
    IF FirstUnknown(gate_list) # 0
    THEN [err |-> "UnknownGate", state |-> held, k |-> 0]
    ELSE LET r == Contractions(gate_list, create_multi_qubit_state(n, 0), 0, n)
         IN IF r.err = "none" THEN r ELSE [r EXCEPT !.state = held]

\* tensor_network_simulator(n_qubits, gates, use_mps) for gates already
\* resolved: [err, value]. With use_mps the function binds "state" to the
\* vector of MPS(n_qubits) (MPS(0) has no tensors[0] to start from) and never
\* binds state_tensor, which both the loop and the return statement read
tensor_network_simulator(n, gate_list, use_mps) ==
    IF use_mps
    THEN IF n = 0 THEN [err |-> "IndexError", value |-> NoVector]
         ELSE [err |-> "UnboundLocalError", value |-> NoVector]
    ELSE LET r == Contractions(gate_list, create_multi_qubit_state(n, 0), 0, n)
         IN [err |-> r.err,
             value |-> IF r.err = "none" THEN r.state ELSE NoVector]

\* run(optimize) as a whole: [err, state, k]
run(gate_list, n, sparse, tn, held, optimize_arg) ==
    LET gates_run == IF optimize_arg THEN optimize(gate_list, NoRules).optimized
                     ELSE CopyList(gate_list)
    IN IF tn THEN ExecuteTensor(gates_run, n, held)
       ELSE Execute(gates_run, create_multi_qubit_state(n, 0), 0, n, sparse)

\* the loop taking the gates from the end of the list first
RunStep_reversed ==
    /\ pc = "loop"
    /\ k < Len(gates_to_run)
    /\ LET r == ApplyGate(gates_to_run[Len(gates_to_run) - k], state, n_qubits,
                          use_sparse)
       IN /\ state' = r.state
          /\ IF r.err = "none"
             THEN /\ k' = k + 1
                  /\ UNCHANGED <<pc, last>>
             ELSE /\ pc' = "idle"
                  /\ last' = Call("run", last.optimize, r.err)
                  /\ UNCHANGED k
    /\ UNCHANGED <<n_qubits, use_sparse, use_tensor_network, gates,
                   gates_to_run, state_tensor, counts, doc>>
    /\ UNCHANGED outside

\* one iteration of the loop of the dense / sparse path
RunStep ==
    /\ pc = "loop"
    /\ k < Len(gates_to_run)
    /\ LET r == ApplyGate(gates_to_run[k + 1], state, n_qubits, use_sparse)
       IN /\ state' = r.state
          /\ IF r.err = "none"
             THEN /\ k' = k + 1
                  /\ UNCHANGED <<pc, last>>
             ELSE /\ pc' = "idle"
                  /\ last' = Call("run", last.optimize, r.err)
                  /\ UNCHANGED k
    /\ UNCHANGED <<n_qubits, use_sparse, use_tensor_network, gates,
                   gates_to_run, state_tensor, counts, doc>>
    /\ UNCHANGED outside

\* run, line 159, on the dense / sparse path
RunReturn ==
    /\ pc = "loop"
    /\ k = Len(gates_to_run)
    /\ pc' = "idle"
    /\ last' = Call("run", last.optimize, "none")
    /\ UNCHANGED <<n_qubits, use_sparse, use_tensor_network, state, gates,
                   gates_to_run, k, state_tensor, counts, doc>>
    /\ UNCHANGED outside

\* one iteration of tensor_network_simulator's loop
TensorStep ==
    /\ pc = "tn"
    /\ k < Len(gates_to_run)
    /\ LET g == gates_to_run[k + 1]
           t == apply_gate_tensor(state_tensor,
                                  get_gate(g.gate_name, g.params), g.qubits,
                                  n_qubits)
       IN IF t = NoVector
          THEN /\ pc' = "idle"
               /\ last' = Call("run", last.optimize, "ShapeMismatch")
               /\ UNCHANGED <<k, state_tensor>>
          ELSE /\ state_tensor' = t
               /\ k' = k + 1
               /\ UNCHANGED <<pc, last>>
    /\ UNCHANGED <<n_qubits, use_sparse, use_tensor_network, state, gates,
                   gates_to_run, counts, doc>>
    /\ UNCHANGED outside

\* tensor_network_simulator returns the flattened tensor and run stores it
TensorReturn ==
    /\ pc = "tn"
    /\ k = Len(gates_to_run)
    /\ state' = state_tensor
    /\ pc' = "idle"
    /\ last' = Call("run", last.optimize, "none")
    /\ UNCHANGED <<n_qubits, use_sparse, use_tensor_network, gates,
                   gates_to_run, k, state_tensor, counts, doc>>
    /\ UNCHANGED outside

\* QuantumCircuit.measure(shots)
Measure(shots) ==
    /\ pc = "idle"
    /\ \E outcomes \in measure(state, shots) :
           counts' = measure_counts(state, outcomes)
    /\ last' = [Call("measure", FALSE, "none") EXCEPT !.shots = shots]
    /\ doc' = NoDoc
    /\ gates_to_run' = << >>
    /\ k' = 0
    /\ state_tensor' = NoVector
    /\ UNCHANGED <<n_qubits, use_sparse, use_tensor_network, state, gates, pc>>
    /\ UNCHANGED outside

\* QuantumCircuit.to_json()
ToJson ==
    /\ pc = "idle"
    /\ doc' = to_json(n_qubits, gates)
    /\ last' = Call("to_json", FALSE, "none")
    /\ counts' = NoCounts
    /\ gates_to_run' = << >>
    /\ k' = 0
    /\ state_tensor' = NoVector
    /\ UNCHANGED <<n_qubits, use_sparse, use_tensor_network, state, gates, pc>>
    /\ UNCHANGED outside

\* QuantumCircuit.from_json(data): a new session, which replaces this one
FromJson(data) ==
    /\ pc = "idle"
    /\ LET c == Construct(data.n_qubits, "None", FALSE)
       IN /\ n_qubits' = c.n_qubits
          /\ use_sparse' = c.use_sparse
          /\ use_tensor_network' = c.use_tensor_network
          /\ state' = c.state
    /\ gates' = from_json(data)
    /\ doc' = data
    /\ last' = Call("from_json", FALSE, "none")
    /\ counts' = NoCounts
    /\ gates_to_run' = << >>
    /\ k' = 0
    /\ state_tensor' = NoVector
    /\ pc' = "idle"
    /\ UNCHANGED outside

Next ==
    \/ \E g \in Catalogue(n_qubits) : AddGate(g)
    \/ \E optimize_arg \in BOOLEAN : RunBegin(optimize_arg)
    \/ RunStep
    \/ RunReturn
    \/ TensorStep
    \/ TensorReturn
    \/ \E shots \in 0..MaxShots : Measure(shots)
    \/ ToJson
    \/ \E data \in {doc} : last.op = "to_json" /\ FromJson(data)
    \/ \E data \in JsonDocs : last.op = "init" /\ FromJson(data)

Spec == Init /\ [][Next]_vars

\* ============================================================ direct calls
\* SpecCalls: one call of a function of the library on arguments drawn from
\* bounded sets.  args holds the arguments, returned what the call returned.

\* longest gate list handed to the optimizer
MaxWord == 4
\* most pairs in a program made of cancelling pairs
MaxPairs == 2
\* largest register create_ghz_state is called for
MaxGhzQubits == 11

\* the sequences over the alphabet of length at most len
RECURSIVE Words(_, _)
Words(alphabet, len) ==
    IF len = 0 THEN {<< >>}
    ELSE LET shorter == Words(alphabet, len - 1)
         IN shorter \cup {Append(w, a) : w \in shorter, a \in alphabet}

Node(gate_name, qubits, params, depth) ==
    [gate_name |-> gate_name, qubits |-> qubits, params |-> params,
     depth |-> depth]

\* gate lists handed to the rules: for cancel_inverse ...
CancelAlphabet ==
    {Node("X", <<0>>, NoParams, 0), Node("H", <<0>>, NoParams, 0),
     Node("CNOT", <<0, 1>>, NoParams, 0), Node("CNOT", <<1, 0>>, NoParams, 0)}

\* ... for merge_rotations (RY without theta, a negative angle; the sums
\* reach and pass 2 pi) ...
MergeAlphabet ==
    {Node("RX", <<0>>, Theta(1), 0), Node("RX", <<0>>, Theta(3), 0),
     Node("RY", <<0>>, NoParams, 0), Node("RX", <<1>>, Theta(0 - 1), 0),
     Node("H", <<0>>, NoParams, 0)}

\* ... and for commute_gates, with depth annotations
CommuteAlphabet ==
    {Node("X", <<0>>, NoParams, 0), Node("X", <<1>>, NoParams, 1),
     Node("H", <<1>>, NoParams, 2), Node("CNOT", <<0, 1>>, NoParams, 1)}

\* X,X,H,H,Y,Y on one qubit
SixGatePairs ==
    <<Node("X", <<0>>, NoParams, 0), Node("X", <<0>>, NoParams, 0),
      Node("H", <<0>>, NoParams, 0), Node("H", <<0>>, NoParams, 0),
      Node("Y", <<0>>, NoParams, 0), Node("Y", <<0>>, NoParams, 0)>>

GateLists ==
    Words(CancelAlphabet, MaxWord) \cup Words(MergeAlphabet, MaxWord)
    \cup Words(CommuteAlphabet, MaxWord - 1) \cup {SixGatePairs}

\* names and parameter mappings handed to get_gate
GateNames ==
    {"X", "Y", "Z", "H", "T", "S", "RX", "RY", "RZ", "PHASE", "CNOT", "CZ",
     "SWAP", "TOFFOLI", "x", "cnot", "Rx", "CCNOT", "I", "U3", ""}

ParamSets ==
    {NoParams, Theta(1), Theta(5), Theta(0 - 1), "phi" :> 1, "phi" :> 6,
     ("theta" :> 2) @@ ("phi" :> 3), "lam" :> 1,
     ("theta" :> 1) @@ ("lam" :> 7)}

\* X on every qubit of ones in ascending order: the preparation of a basis
\* state
RECURSIVE Prepare(_, _, _)
Prepare(ones, q, n) ==
    IF q >= n THEN << >>
    ELSE (IF q \in ones THEN <<Node("X", <<q>>, NoParams, 0)>> ELSE << >>)
         \o Prepare(ones, q + 1, n)

\* ... followed by cnot(c + 1, c): the control is the higher index
PrepareThenReversedCnot(ones, c, n) ==
    Append(Prepare(ones, 0, n), Node("CNOT", <<c + 1, c>>, NoParams, 0))

\* ... followed by cnot(c, c + 1)
PrepareThenCnot(ones, c, n) ==
    Append(Prepare(ones, 0, n), Node("CNOT", <<c, c + 1>>, NoParams, 0))

\* a program of pairs: each gate of the word twice
RECURSIVE Doubled(_)
Doubled(word) ==
    IF word = << >> THEN << >>
    ELSE <<Head(word), Head(word)>> \o Doubled(Tail(word))

\* the gates whose pairs cancel_inverse drops, on a register of n qubits
PairAlphabet(n) ==
    {Node("X", <<0>>, NoParams, 0), Node("H", <<n - 1>>, NoParams, 0)}
    \cup (IF n >= 2 THEN {Node("CNOT", <<0, n - 1>>, NoParams, 0),
                          Node("Z", <<1>>, NoParams, 0)}
          ELSE {Node("Y", <<0>>, NoParams, 0)})

\* the programs run is called on, on a register of n qubits
RunPrograms(n) ==
    {PrepareThenCnot(ones, c, n) : ones \in SUBSET (0..(n - 1)), c \in 0..(n - 2)}
    \cup {PrepareThenReversedCnot(ones, c, n) :
             ones \in SUBSET (0..(n - 1)), c \in 0..(n - 2)}
    \cup {<<Node("X", <<i>>, NoParams, 0)>> : i \in 0..(n - 1)}
    \cup {Doubled(w) : w \in Words(PairAlphabet(n), MaxPairs)}
    \cup {SixGatePairs}

\* the programs whose vectors partial_measure is called on: basis states,
\* one qubit in superposition (with and without a phase), a Bell pair on
\* qubits 0 and 1, every qubit in superposition
MeasuredPrograms(n) ==
    {Prepare(ones, 0, n) : ones \in SUBSET (0..(n - 1))}
    \cup {<<Node("H", <<q>>, NoParams, 0)>> : q \in 0..(n - 1)}
    \cup {<<Node("H", <<q>>, NoParams, 0), Node("T", <<q>>, NoParams, 0)>> :
             q \in 0..(n - 1)}
    \cup {<<Node("H", <<0>>, NoParams, 0), Node("CNOT", <<0, 1>>, NoParams, 0)>> :
             q \in 1..(n - 1)}
    \cup {[q \in 1..n |-> Node("H", <<q - 1>>, NoParams, 0)]}

\* the vector c.run(optimize=False) returns for a dense session of n qubits
\* holding the program w
MeasuredState(w, n) ==
    run(w, n, FALSE, FALSE, create_multi_qubit_state(n, 0), FALSE).state

\* circuits.py, create_ghz_state: H on qubit 0, then CNOT(i, i + 1)
create_ghz_state(n) ==
    <<Node("H", <<0>>, NoParams, 0)>>
    \o [i \in 1..(n - 1) |-> Node("CNOT", <<i - 1, i>>, NoParams, 0)]

\* the gate lists tensor_network_simulator is called on directly: none, one
\* X, the GHZ circuit
ContractedPrograms(n) ==
    {<< >>}
    \cup {<<Node("X", <<i>>, NoParams, 0)>> : i \in 0..(n - 1)}
    \cup (IF n >= 2 THEN {create_ghz_state(n)} ELSE {})

\* most qubit indices handed to partial_measure
MaxIndices == 2

\* most rule names in a selection handed to optimize
MaxRules == 2

\* the names a caller lists: the three rules and a name that is no rule
RuleNames == Range(optimization_rules) \cup {"fold_constants"}

\* the lists optimize is called on with a selection of rules: every list of
\* as many gates as the selection has names, and three longer ones on which
\* the order of the rules shows
RuleAlphabet ==
    {Node("X", <<0>>, NoParams, 0), Node("H", <<0>>, NoParams, 0),
     Node("RX", <<0>>, Theta(1), 0), Node("RX", <<0>>, Theta(3), 0)}

RuleLists ==
    Words(RuleAlphabet, MaxRules)
    \cup {<<Node("H", <<0>>, NoParams, 0), Node("X", <<0>>, NoParams, 0),
            Node("X", <<0>>, NoParams, 0), Node("H", <<0>>, NoParams, 0)>>,
          <<Node("X", <<0>>, NoParams, 0), Node("RX", <<0>>, Theta(1), 0),
            Node("RX", <<0>>, Theta(3), 0), Node("X", <<0>>, NoParams, 0)>>,
          <<Node("X", <<0>>, NoParams, 0), Node("X", <<1>>, NoParams, 1)>>}

Inputs ==
    {[fn |-> "get_gate", gate_name |-> name, params |-> params] :
        name \in GateNames, params \in ParamSets}
    \cup {[fn |-> "optimizer", gates |-> w] : w \in GateLists}
    \cup UNION {{[fn |-> "run", n_qubits |-> n, use_sparse |-> sparse_arg,
                  use_tensor_network |-> tn, optimize |-> o, gates |-> w] :
                    sparse_arg \in SparseArgs, tn \in BOOLEAN, o \in BOOLEAN,
                    w \in RunPrograms(n)} : n \in 1..MaxQubits}
    \cup {[fn |-> "create_ghz_state", n_qubits |-> n] : n \in 2..MaxGhzQubits}
    \cup UNION {{[fn |-> "tensor_network_simulator", n_qubits |-> n,
                  gates |-> w, use_mps |-> use_mps] :
                    w \in ContractedPrograms(n), use_mps \in BOOLEAN} :
                        n \in 0..MaxQubits}
    \cup UNION {{[fn |-> "partial_measure", n_qubits |-> n,
                  state |-> MeasuredState(w, n), qubit_indices |-> indices] :
                    w \in MeasuredPrograms(n),
                    indices \in Words(0..(n - 1), MaxIndices)} :
                        n \in 1..MaxQubits}
    \cup {[fn |-> "get_circuit_info", n_qubits |-> n, use_sparse |-> sparse_arg,
           use_tensor_network |-> tn] :
            n \in 0..MaxGhzQubits, sparse_arg \in SparseArgs, tn \in BOOLEAN}
    \cup UNION {{[fn |-> "apply_two_qubit_gate", gate_name |-> name,
                  control |-> c, target |-> t, n_qubits |-> n,
                  use_sparse |-> sparse] :
                    name \in {"CNOT", "SWAP"}, sparse \in BOOLEAN,
                    c \in 0..(n - 1), t \in 0..(n - 1)} :
                n \in 2..(MaxQubits + 1)}
    \cup {[fn |-> "optimize_rules", gates |-> w, rules |-> rules] :
            w \in RuleLists, rules \in Words(RuleNames, MaxRules)}

\* the session variables are not used by SpecCalls
InitCalls ==
    /\ args \in Inputs
    /\ returned = NoReturn
    /\ n_qubits = 0
    /\ use_sparse = FALSE
    /\ use_tensor_network = FALSE
    /\ state = create_multi_qubit_state(0, 0)
    /\ gates = << >>
    /\ pc = "idle"
    /\ gates_to_run = << >>
    /\ k = 0
    /\ state_tensor = NoVector
    /\ last = Call("init", FALSE, "none")
    /\ counts = NoCounts
    /\ doc = NoDoc
    /\ np_random = NoGenerator
    /\ sessions = NoSessions

\* get_gate(gate_name, **params)
CallGetGate ==
    /\ args.fn = "get_gate"
    /\ returned = NoReturn
    /\ LET gate_matrix == get_gate(args.gate_name, args.params)
       IN returned' = [fn |-> "get_gate",
                       err |-> IF gate_matrix = NoMatrix THEN "UnknownGate"
                               ELSE "none",
                       value |-> gate_matrix]
    /\ UNCHANGED <<session, args, np_random, sessions>>

\* a list without the bookkeeping of the optimizer: the records a caller sees
Records(gate_list) ==
    [i \in 1..Len(gate_list) |->
        Node(gate_list[i].gate_name, gate_list[i].qubits, gate_list[i].params,
             gate_list[i].depth)]

\* one rule of the optimizer called on the list: value is the list it
\* returns, input the caller's list afterwards
CallRule(rule_name) ==
    /\ args.fn = "optimizer"
    /\ returned = NoReturn
    /\ LET optimized == ApplyRule(rule_name, CopyList(args.gates))
       IN returned' = [fn |-> rule_name,
                       value |-> Records(optimized),
                       input |-> WriteBack(args.gates, optimized)]
    /\ UNCHANGED <<session, args, np_random, sessions>>

\* optimize(gates), rules omitted
CallOptimize ==
    /\ args.fn = "optimizer"
    /\ returned = NoReturn
    /\ LET o == optimize(args.gates, NoRules)
       IN returned' = [fn |-> "optimize",
                       value |-> Records(o.optimized),
                       input |-> o.input]
    /\ UNCHANGED <<session, args, np_random, sessions>>

\* QuantumCircuit(n, use_sparse, use_tensor_network), add_gate for each gate
\* of the program, run(optimize): value is the session's vector afterwards
CallRun ==
    /\ args.fn = "run"
    /\ returned = NoReturn
    /\ LET c == Construct(args.n_qubits, args.use_sparse, args.use_tensor_network)
           r == run(args.gates, c.n_qubits, c.use_sparse, c.use_tensor_network,
                    c.state, args.optimize)
       IN returned' = [fn |-> "run", err |-> r.err, value |-> r.state,
                       k |-> r.k, use_sparse |-> c.use_sparse]
    /\ UNCHANGED <<session, args, np_random, sessions>>

\* ---- the shapes of the operators run builds, for registers whose vectors
\* ---- are too long to follow: each operator is followed by its side only
\* np.kron / scipy.sparse.kron: the side of the product
KronSide(a, b) == a * b

\* apply_single_qubit_gate: the fold "for i in range(1, n)"
RECURSIVE SingleFoldSide(_, _, _)
SingleFoldSide(side, i, n) ==
    IF i >= n THEN side ELSE SingleFoldSide(KronSide(side, 2), i + 1, n)

RECURSIVE PadIdentitySide(_, _, _)
PadIdentitySide(side, from, to) ==
    IF from >= to THEN side
    ELSE PadIdentitySide(KronSide(side, 2), from + 1, to)

RECURSIVE SparseLeadSide(_, _, _, _, _)
SparseLeadSide(side, gate_side, min_idx, i, n) ==
    IF i >= n THEN side
    ELSE IF i = min_idx THEN KronSide(side, gate_side)
    ELSE SparseLeadSide(KronSide(side, 2), gate_side, min_idx, i + 2, n)

\* the side of the operator run builds for one gate, lines 141-155
FullGateSide(gate_node, n, sparse) ==
    LET gate_matrix == get_gate(gate_node.gate_name, gate_node.params) IN
    IF gate_matrix = NoMatrix THEN [err |-> "UnknownGate", side |-> 0]
    ELSE IF Len(gate_node.qubits) = 1
    THEN [err |-> "none", side |-> SingleFoldSide(2, 1, n)]
    ELSE IF Len(gate_node.qubits) = 2
    THEN LET min_idx == Min(gate_node.qubits[1], gate_node.qubits[2]) IN
         IF Abs(gate_node.qubits[1] - gate_node.qubits[2]) # 1
         THEN [err |-> "UnsupportedTopology", side |-> 0]
         ELSE IF sparse
         THEN [err |-> "none",
               side |-> PadIdentitySide(
                            SparseLeadSide(1, gate_matrix.d, min_idx, 0, n),
                            min_idx + 2, n)]
         ELSE [err |-> "none",
               side |-> PadIdentitySide(
                            KronSide(PadIdentitySide(1, 0, min_idx), gate_matrix.d),
                            min_idx + 2, n)]
    ELSE [err |-> "UnsupportedArity", side |-> 0]

\* run's loop on the dense / sparse path from gate kk + 1 on, by shapes:
\* [err, len, k], len the length of the vector
RECURSIVE ExecuteShapes(_, _, _, _, _)
ExecuteShapes(gate_list, len, kk, n, sparse) ==
    IF kk >= Len(gate_list) THEN [err |-> "none", len |-> len, k |-> kk]
    ELSE LET f == FullGateSide(gate_list[kk + 1], n, sparse)
         IN IF f.err # "none" THEN [err |-> f.err, len |-> len, k |-> kk]
            ELSE IF f.side # len
            THEN [err |-> "ShapeMismatch", len |-> len, k |-> kk]
            ELSE ExecuteShapes(gate_list, f.side, kk + 1, n, sparse)

\* create_ghz_state(n).run(): the shapes for every n, the amplitudes for the
\* registers of at most MaxQubits qubits
CallGhz ==
    /\ args.fn = "create_ghz_state"
    /\ returned = NoReturn
    /\ LET n == args.n_qubits
           sparse == should_use_sparse(n, 5)
           gates_run == optimize(create_ghz_state(n), NoRules).optimized
           shapes == ExecuteShapes(gates_run, Pow2(n), 0, n, sparse)
       IN returned' = [fn |-> "create_ghz_state",
                       err |-> shapes.err,
                       len |-> shapes.len,
                       k |-> shapes.k,
                       use_sparse |-> sparse,
                       value |-> IF n <= MaxQubits
                                 THEN run(create_ghz_state(n), n, sparse, FALSE,
                                          create_multi_qubit_state(n, 0), TRUE).state
                                 ELSE NoVector]
    /\ UNCHANGED <<session, args, np_random, sessions>>

\* optimize(gates, rules) with a list of rule names
CallOptimizeRules ==
    /\ args.fn = "optimize_rules"
    /\ returned = NoReturn
    /\ LET o == optimize(args.gates, args.rules)
       IN returned' = [fn |-> "optimize_rules",
                       value |-> Records(o.optimized),
                       input |-> o.input]
    /\ UNCHANGED <<session, args, np_random, sessions>>

\* calculate_circuit_depth(gates)
CallDepth ==
    /\ args.fn = "optimizer"
    /\ returned = NoReturn
    /\ returned' = [fn |-> "calculate_circuit_depth",
                    value |-> calculate_circuit_depth(args.gates)]
    /\ UNCHANGED <<session, args, np_random, sessions>>

\* apply_two_qubit_gate(gate, control, target, n_qubits, use_sparse) with two
\* indices of the register
CallTwoQubit ==
    /\ args.fn = "apply_two_qubit_gate"
    /\ returned = NoReturn
    /\ LET full_gate == apply_two_qubit_gate(GATE_MAP[args.gate_name],
                                             args.control, args.target,
                                             args.n_qubits, args.use_sparse)
       IN returned' = [fn |-> "apply_two_qubit_gate",
                       err |-> IF full_gate = NoMatrix THEN "UnsupportedTopology"
                               ELSE "none",
                       value |-> full_gate]
    /\ UNCHANGED <<session, args, np_random, sessions>>

\* tensor_network_simulator by shapes: run resolves every name first, and a
\* contraction fails only when the matrix does not have one axis pair per
\* target
ExecuteTensorShapes(gate_list, len) ==
    IF FirstUnknown(gate_list) # 0
    THEN [err |-> "UnknownGate", len |-> len, k |-> 0]
    ELSE IF \E i \in 1..Len(gate_list) :
                get_gate(gate_list[i].gate_name, gate_list[i].params).d
                    # Pow2(Len(gate_list[i].qubits))
    THEN [err |-> "ShapeMismatch", len |-> len, k |-> 0]
    ELSE [err |-> "none", len |-> len, k |-> Len(gate_list)]

\* the program a session is given before it is asked for its info: on three
\* or more qubits, a CNOT on (m, m + 1) and a CNOT on (0, 2), which each of
\* the three paths treats differently. m is odd, so that the sparse loop
\* never places the gate, and is 3 on 5 and 6 qubits, where the sparse
\* operator for m = 1 is an identity of the register's size
ProbeIndex(n) == IF n \in {5, 6} THEN 3 ELSE 1

Probe(n) ==
    IF n >= 3
    THEN <<Node("CNOT", <<ProbeIndex(n), ProbeIndex(n) + 1>>, NoParams, 0),
           Node("CNOT", <<0, 2>>, NoParams, 0)>>
    ELSE << >>

\* QuantumCircuit.get_circuit_info
get_circuit_info(c) ==
    [n_qubits |-> c.n_qubits,
     n_gates |-> Len(c.gates),
     depth |-> calculate_circuit_depth(c.gates),
     gate_counts |-> estimate_gate_count(c.gates),
     use_sparse |-> c.use_sparse,
     use_tensor_network |-> c.use_tensor_network]

\* QuantumCircuit(n, use_sparse, use_tensor_network), the probe added,
\* get_circuit_info(), then run(optimize=False) followed by its shapes
CallInfo ==
    /\ args.fn = "get_circuit_info"
    /\ returned = NoReturn
    /\ LET c == [Construct(args.n_qubits, args.use_sparse, args.use_tensor_network)
                    EXCEPT !.gates = Probe(args.n_qubits)]
           r == IF c.use_tensor_network
                THEN ExecuteTensorShapes(c.gates, Pow2(c.n_qubits))
                ELSE ExecuteShapes(c.gates, Pow2(c.n_qubits), 0, c.n_qubits,
                                   c.use_sparse)
       IN returned' = [fn |-> "get_circuit_info",
                       info |-> get_circuit_info(c),
                       err |-> r.err,
                       k |-> r.k]
    /\ UNCHANGED <<session, args, np_random, sessions>>

\* partial_measure(state, qubit_indices, n), for each outcome
\* np.random.choice can draw
CallPartialMeasure ==
    /\ args.fn = "partial_measure"
    /\ returned = NoReturn
    /\ \E outcome \in Support(args.state) :
           LET m == partial_measure(args.state, args.qubit_indices,
                                    args.n_qubits, outcome)
           IN returned' = [fn |-> "partial_measure",
                           outcome |-> outcome,
                           measured_value |-> m.measured_value,
                           post_state |-> m.post_state,
                           norm_sq |-> m.norm_sq,
                           state |-> m.state]
    /\ UNCHANGED <<session, args, np_random, sessions>>

\* tensor_network_simulator(n_qubits, gates, use_mps) called directly
CallTensorNetwork ==
    /\ args.fn = "tensor_network_simulator"
    /\ returned = NoReturn
    /\ LET r == tensor_network_simulator(args.n_qubits, args.gates, args.use_mps)
       IN returned' = [fn |-> "tensor_network_simulator", err |-> r.err,
                       value |-> r.value]
    /\ UNCHANGED <<session, args, np_random, sessions>>

NextCalls ==
    \/ CallGetGate
    \/ CallTensorNetwork
    \/ CallPartialMeasure
    \/ CallInfo
    \/ CallTwoQubit
    \/ CallDepth
    \/ CallOptimizeRules
    \/ CallGhz
    \/ \E rule_name \in Range(optimization_rules) : CallRule(rule_name)
    \/ CallOptimize
    \/ CallRun

SpecCalls == InitCalls /\ [][NextCalls]_vars

\* ================================================================ sampling
\* SpecSampling: two sessions of one process call measure in any order.
\* np.random.choice reads numpy's process-wide generator: np_random.stream is
\* the sequence of uniform draws its seed determines (0: below 1/2, 1: not
\* below), np_random.pos the number of draws consumed so far.

\* the length of the stream that is followed
MaxDraws == 4

\* the vectors the sessions hold: |0>, |1> and H|0>
SampledStates ==
    {create_multi_qubit_state(1, 0), create_multi_qubit_state(1, 1),
     sparse_state_vector_product(
         apply_single_qubit_gate(hadamard, 0, 1, FALSE),
         create_multi_qubit_state(1, 0))}

\* np.random.choice(n_states, p=probs) for one uniform draw u, on a vector
\* of one qubit with probabilities (1, 0), (0, 1) or (1/2, 1/2): the first
\* index whose cumulative probability exceeds u
Choice(held, u) ==
    IF Support(held) = {0} THEN 0
    ELSE IF Support(held) = {1} THEN 1
    ELSE u

InitSampling ==
    /\ \E stream \in [1..MaxDraws -> {0, 1}] :
           np_random = [stream |-> stream, pos |-> 0]
    /\ \E a \in SampledStates, b \in SampledStates :
           sessions = <<[state |-> a, outcomes |-> << >>],
                        [state |-> b, outcomes |-> << >>]>>
    /\ args = NoArgs
    /\ returned = NoReturn
    /\ n_qubits = 0
    /\ use_sparse = FALSE
    /\ use_tensor_network = FALSE
    /\ state = create_multi_qubit_state(0, 0)
    /\ gates = << >>
    /\ pc = "idle"
    /\ gates_to_run = << >>
    /\ k = 0
    /\ state_tensor = NoVector
    /\ last = Call("init", FALSE, "none")
    /\ counts = NoCounts
    /\ doc = NoDoc

\* session s calls measure(shots): measure_counts -> measure ->
\* np.random.choice(n_states, size=shots, p=probs), which consumes the next
\* shots draws of the process-wide generator
MeasureBy(s, shots) ==
    /\ np_random.pos + shots <= Len(np_random.stream)
    /\ LET drawn == [j \in 1..shots |->
                       Choice(sessions[s].state,
                              np_random.stream[np_random.pos + j])]
       IN sessions' = [sessions EXCEPT ![s].outcomes = @ \o drawn]
    /\ np_random' = [np_random EXCEPT !.pos = @ + shots]
    /\ UNCHANGED <<session, args, returned>>

NextSampling ==
    \E s \in 1..2, shots \in 1..MaxShots : MeasureBy(s, shots)

SpecSampling == InitSampling /\ [][NextSampling]_vars

\* ========================================================== commute_gates
\* SpecCommute: _commute_gates on one gate list, one pass of its while loop
\* per step.  While the call runs, returned holds its locals.

\* the depth annotations of the lists
Depths == (0 - 1)..1

DepthAlphabet ==
    {Node("X", <<q>>, NoParams, d) : q \in {0, 1}, d \in Depths}
    \cup {Node("CNOT", <<0, 1>>, NoParams, 0)}

\* the session variables, the generator and the sessions are not used
NoSession ==
    /\ n_qubits = 0
    /\ use_sparse = FALSE
    /\ use_tensor_network = FALSE
    /\ state = create_multi_qubit_state(0, 0)
    /\ gates = << >>
    /\ pc = "idle"
    /\ gates_to_run = << >>
    /\ k = 0
    /\ state_tensor = NoVector
    /\ last = Call("init", FALSE, "none")
    /\ counts = NoCounts
    /\ doc = NoDoc
    /\ np_random = NoGenerator
    /\ sessions = NoSessions

InitCommute ==
    /\ \E w \in Words(DepthAlphabet, MaxWord - 1) :
           args = [fn |-> "commute_gates", gates |-> w]
    /\ returned = NoReturn
    /\ NoSession

\* "optimized = gates.copy(); changed = True"
CommuteBegin ==
    /\ returned = NoReturn
    /\ returned' = [fn |-> "commuting", optimized |-> CopyList(args.gates),
                    changed |-> TRUE]
    /\ UNCHANGED <<session, args, np_random, sessions>>

\* one iteration of "while changed": changed = False, then the for loop
CommuteWhile ==
    /\ returned.fn = "commuting"
    /\ returned.changed
    /\ LET next == CommutePass(returned.optimized, 1)
       IN returned' = [returned EXCEPT !.optimized = next,
                                       !.changed = (next # returned.optimized)]
    /\ UNCHANGED <<session, args, np_random, sessions>>

\* "return optimized"
CommuteReturn ==
    /\ returned.fn = "commuting"
    /\ ~returned.changed
    /\ returned' = [fn |-> "commute_gates",
                    value |-> Records(returned.optimized),
                    input |-> WriteBack(args.gates, returned.optimized)]
    /\ UNCHANGED <<session, args, np_random, sessions>>

NextCommute ==
    \/ CommuteBegin
    \/ CommuteWhile
    \/ CommuteReturn

\* the call runs on one thread without suspension: a step that can be taken
\* is taken
SpecCommute == InitCommute /\ [][NextCommute]_vars /\ WF_vars(NextCommute)

\* ================================================================== claims
\* a run has just returned or failed
RunEnded == pc = "idle" /\ last.op = "run"
RunReturned == RunEnded /\ last.err = "none"

ZeroState == create_multi_qubit_state(n_qubits, 0)

\* the gate has a name the library knows and as many targets as its matrix
\* has qubits
WellFormed(g) ==
    /\ get_gate(g.gate_name, g.params) # NoMatrix
    /\ get_gate(g.gate_name, g.params).d = Pow2(Len(g.qubits))

Adjacent(g) == Len(g.qubits) = 2 /\ Abs(g.qubits[1] - g.qubits[2]) = 1

\* single-qubit gates and two-qubit gates on adjacent indices only
SingleAndAdjacentOnly(gate_list) ==
    \A i \in 1..Len(gate_list) :
        /\ WellFormed(gate_list[i])
        /\ Len(gate_list[i].qubits) = 1 \/ Adjacent(gate_list[i])

\* C1: when run(optimize=True) and run(optimize=False) both accept the
\* session's program, they return the same amplitude vector, entry by entry;
\* stated of the run that has just returned and the run with the other value
\* of optimize.
C1_OptimizerEquivalence ==
    RunReturned =>
        LET other == run(gates, n_qubits, use_sparse, use_tensor_network, state,
                         ~last.optimize)
        IN other.err = "none" => other.state = state

\* C2: for a sequence of single-qubit gates and adjacent two-qubit gates, the
\* run of a session with use_sparse=True and the run of a session with
\* use_sparse=False end the same way with the same amplitude vector; stated of
\* the run that has just ended and the same sequence under the other value of
\* use_sparse.
C2_SparseDenseEquivalence ==
    (RunEnded /\ ~use_tensor_network /\ SingleAndAdjacentOnly(gates_to_run)) =>
        LET other == Execute(gates_to_run, ZeroState, 0, n_qubits, ~use_sparse)
        IN /\ last.err = "none"
           /\ other.err = "none"
           /\ other.state = state
           /\ Len(state.v) = Pow2(n_qubits)

\* C3: after every gate application during run, and at its end, the amplitude
\* vector (the session's, and the tensor backend's while it runs) has length
\* 2^n and squared magnitudes that sum to 1.
C3_NormPreserved ==
    /\ Len(state.v) = Pow2(n_qubits)
    /\ UnitNorm(state)
    /\ pc = "tn" => /\ Len(state_tensor.v) = Pow2(n_qubits)
                    /\ UnitNorm(state_tensor)

\* C3 witness: inside run's loop, after one gate, in a superposition
C3_Witness ==
    /\ pc = "loop"
    /\ k = 1
    /\ Len(gates_to_run) = 2
    /\ Cardinality(Support(state)) = 2

\* C4: for every sequence the dense path accepts, the run of a session with
\* use_tensor_network=True returns the vector the dense run returns.
C4_TensorEqualsDense ==
    (RunEnded /\ use_tensor_network) =>
        LET dense == Execute(gates_to_run, ZeroState, 0, n_qubits, FALSE)
        IN dense.err = "none" => (last.err = "none" /\ state = dense.state)

Known(g) == get_gate(g.gate_name, g.params) # NoMatrix

\* a gate with two target indices that are not numerically adjacent
NonAdjacentPair(g) == Len(g.qubits) = 2 /\ Abs(g.qubits[1] - g.qubits[2]) # 1

\* C5 as stated: whenever the program run has processed contains a two-qubit
\* gate whose targets are not adjacent, the run has failed with the
\* unsupported-topology error, for either value of optimize and every policy;
\* stated of the programs of known gates that begin with such a gate, where
\* no other gate can fail first.
C5_NonAdjacentAlwaysFails ==
    (/\ RunEnded
     /\ Len(gates) >= 1
     /\ NonAdjacentPair(gates[1])
     /\ \A j \in 1..Len(gates) : Known(gates[j])) =>
        (last.err = "UnsupportedTopology"
         /\ ErrType(last.err) = "NotImplementedError")

\* C5 amended: on the dense and the sparse path, run never gets past a gate
\* of the executed sequence that has a known name and two non-adjacent
\* targets: when it reaches one it fails there with the unsupported-topology
\* error (NotImplementedError), for either value of optimize.
C5_ReachedNonAdjacentFails ==
    (~use_tensor_network /\ (pc = "loop" \/ RunEnded)) =>
        \A i \in 1..Len(gates_to_run) :
            (Known(gates_to_run[i]) /\ NonAdjacentPair(gates_to_run[i])) =>
                /\ i > k
                /\ (RunEnded /\ i = k + 1) =>
                       (last.err = "UnsupportedTopology"
                        /\ ErrType(last.err) = "NotImplementedError")

\* C5 witness: an optimized run on the sparse path stopped by such a gate
C5_Witness ==
    /\ RunEnded
    /\ ~use_tensor_network
    /\ use_sparse
    /\ last.optimize
    /\ last.err = "UnsupportedTopology"
    /\ NonAdjacentPair(gates_to_run[k + 1])

\* the vector after the first kk gates of the list, on the session's path
PrefixResult(gate_list, kk) ==
    IF use_tensor_network
    THEN Contractions(SubSeq(gate_list, 1, kk), ZeroState, 0, n_qubits).state
    ELSE Execute(SubSeq(gate_list, 1, kk), ZeroState, 0, n_qubits, use_sparse).state

\* C6 as stated: when run has failed on an unknown gate, the visible vector
\* is the result of applying the gates before it to the all-zero state, for
\* every policy.
C6_UnknownGateKeepsPrefix ==
    (RunEnded /\ last.err = "UnknownGate") =>
        state = PrefixResult(gates_to_run, FirstUnknown(gates_to_run) - 1)

\* C6 amended: a step of run that fails on an unknown gate at position k
\* leaves, on the dense and the sparse path, the result of applying the k
\* gates before it to the all-zero state; on the tensor path it leaves the
\* vector the session held when run was called.
C6_UnknownGateNoRollback ==
    [][(last'.op = "run" /\ last'.err = "UnknownGate") =>
           /\ ErrType(last'.err) = "ValueError"
           /\ pc' = "idle"
           /\ IF use_tensor_network
              THEN state' = state
              ELSE /\ k' = FirstUnknown(gates_to_run') - 1
                   /\ state' = Execute(SubSeq(gates_to_run', 1, k'), ZeroState,
                                       0, n_qubits, use_sparse).state]_vars

\* C6 witness: a dense or sparse run stopped by an unknown gate after it
\* had changed the vector
C6_Witness ==
    /\ RunEnded
    /\ last.err = "UnknownGate"
    /\ ~use_tensor_network
    /\ k >= 1
    /\ state # ZeroState

\* how run ends at a gate with more than two targets that it reaches
ArityOutcome(i) ==
    /\ i = k + 1
    /\ last.err = IF Known(gates_to_run[i]) THEN "UnsupportedArity"
                  ELSE "UnknownGate"
    /\ ErrType(last.err) = IF Known(gates_to_run[i]) THEN "NotImplementedError"
                           ELSE "ValueError"

\* C7 as stated: for every policy, a run that reaches a gate with more than
\* two targets fails there, with the unsupported-arity error when the name is
\* known and the unknown-gate error when it is not; stated of the executed
\* sequences that begin with such a gate and hold no unknown name after it.
C7_ArityAlwaysFails ==
    (/\ RunEnded
     /\ Len(gates_to_run) >= 1
     /\ Len(gates_to_run[1].qubits) > 2
     /\ \A j \in 2..Len(gates_to_run) : Known(gates_to_run[j])) =>
        ArityOutcome(1)

\* C7 amended: the same, on the dense and the sparse path.
C7_ArityFailsOnExpansionPath ==
    (RunEnded /\ ~use_tensor_network) =>
        \A i \in 1..Len(gates_to_run) :
            (Len(gates_to_run[i].qubits) > 2 /\ i <= k + 1) => ArityOutcome(i)

\* C7 witness: a dense or sparse run stopped by TOFFOLI on three targets
C7_Witness ==
    /\ RunEnded
    /\ ~use_tensor_network
    /\ last.err = "UnsupportedArity"
    /\ gates_to_run[k + 1].gate_name = "TOFFOLI"
    /\ Len(gates_to_run[k + 1].qubits) = 3

HasParams(data) == \A i \in 1..Len(data.gates) : "params" \in DOMAIN data.gates[i]

\* C8: decoding the document to_json produces gives back the qubit count and
\* the gates, in order, with their names, target lists and parameters; and
\* for a document just read by from_json whose gates all carry params,
\* to_json of the session gives back the document.
C8_RoundTrip ==
    /\ to_json(n_qubits, gates).n_qubits = n_qubits
    /\ from_json(to_json(n_qubits, gates)) = gates
    /\ (last.op = "from_json" /\ HasParams(doc)) =>
           to_json(n_qubits, gates) = doc

\* C8 witness: a session read from a document with a parameterized gate
C8_Witness ==
    /\ last.op = "from_json"
    /\ HasParams(doc)
    /\ Len(gates) >= 1
    /\ gates[1].params # NoParams

RECURSIVE SumOver(_, _)
SumOver(f, keys) ==
    IF keys = {} THEN 0
    ELSE LET x == CHOOSE x \in keys : TRUE
         IN f[x] + SumOver(f, keys \ {x})

\* C9: on a register of n >= 0 qubits, the table measure(shots=S) returns has
\* counts that sum to S, keys that are strings of exactly n binary digits, and
\* no count below 1.
C9_OutcomeTable ==
    last.op = "measure" =>
        /\ SumOver(counts, DOMAIN counts) = last.shots
        /\ \A key \in DOMAIN counts :
               /\ Len(key) = n_qubits
               /\ \A c \in 1..Len(key) : key[c] \in {"0", "1"}
               /\ counts[key] >= 1

\* the program of a gate list: names, target lists and parameters, in order
Program(gate_list) ==
    [i \in 1..Len(gate_list) |->
        [gate_name |-> gate_list[i].gate_name, qubits |-> gate_list[i].qubits,
         params |-> gate_list[i].params]]

\* C10: no step of run, optimizing or not, on any path, returning or failing,
\* changes the length, order, names, target lists or parameters of the
\* session's gate sequence.
C10_RunReadsProgram ==
    [][last'.op \in {"run", "running"} => Program(gates') = Program(gates)]_vars

\* C10 witness: an optimized run that executed fewer gates than the program
\* holds
C10_Witness ==
    /\ RunEnded
    /\ last.optimize
    /\ Len(gates) = 2
    /\ Len(gates_to_run) < 2

\* the vector after the first i gates of the list: gate i's operator (its
\* expanded operator on the dense / sparse path, its contraction on the tensor
\* path) applied to the vector after the first i - 1, from the all-zero state
RECURSIVE GateFold(_, _)
GateFold(gate_list, i) ==
    IF i = 0 THEN ZeroState
    ELSE LET g == gate_list[i]
             before == GateFold(gate_list, i - 1)
         IN IF use_tensor_network
            THEN apply_gate_tensor(before, get_gate(g.gate_name, g.params),
                                   g.qubits, n_qubits)
            ELSE sparse_state_vector_product(
                     FullGate(g, n_qubits, use_sparse).op, before)

Names(gate_list) == [i \in 1..Len(gate_list) |-> gate_list[i].gate_name]

\* C11: run(optimize=False) applies the session's gates in list order, one
\* at a time: while it runs, the vector is the left-to-right fold of the first
\* k gates' operators from the all-zero state, the vector it returns is the
\* fold of the whole list, and on one qubit X,Z returns -|1> where Z,X
\* returns |1>.
C11_ListOrder ==
    (~last.optimize /\ (pc \in {"loop", "tn"} \/ RunReturned)) =>
        /\ Program(gates_to_run) = Program(gates)
        /\ pc = "loop" => state = GateFold(gates, k)
        /\ pc = "tn" => state_tensor = GateFold(gates, k)
        /\ RunReturned =>
               /\ k = Len(gates)
               /\ state = GateFold(gates, Len(gates))
               /\ (n_qubits = 1 /\ Names(gates) = <<"X", "Z">>) =>
                      state = [k |-> 0, v |-> <<Zero, ANeg(One)>>]
               /\ (n_qubits = 1 /\ Names(gates) = <<"Z", "X">>) =>
                      state = [k |-> 0, v |-> <<Zero, One>>]

\* C11 witness: X then Z on one qubit has returned -|1>
C11_Witness ==
    /\ RunReturned
    /\ ~last.optimize
    /\ n_qubits = 1
    /\ Names(gates) = <<"X", "Z">>
    /\ state = [k |-> 0, v |-> <<Zero, ANeg(One)>>]

\* ------------------------------------------------------------------- C12
\* the basis index with the qubits of ones set, qubit 0 the most significant
\* bit
RECURSIVE IndexOf(_, _, _)
IndexOf(ones, q, n) ==
    IF q >= n THEN 0
    ELSE (IF q \in ones THEN Pow2(n - 1 - q) ELSE 0) + IndexOf(ones, q + 1, n)

\* the qubits set after cnot(c, c + 1): qubit c + 1 flipped iff qubit c is set
AfterCnot(ones, c) ==
    IF c \notin ones THEN ones
    ELSE IF c + 1 \in ones THEN ones \ {c + 1}
    ELSE ones \cup {c + 1}

\* C12: a session that prepares a computational basis state with X gates and
\* then applies cnot(c, c + 1) returns the basis state in which qubit c + 1
\* is flipped exactly when qubit c is 1, qubit 0 being the most significant
\* bit of the index; x(0) on two qubits gives index 2, and cnot(0, 1) after
\* it gives index 3.
C12_CnotOnBasisStates ==
    (returned.fn = "run") =>
        /\ \A ones \in SUBSET (0..(args.n_qubits - 1)), c \in 0..(args.n_qubits - 2) :
               args.gates = PrepareThenCnot(ones, c, args.n_qubits) =>
                   /\ returned.err = "none"
                   /\ returned.value =
                          create_multi_qubit_state(
                              args.n_qubits,
                              IndexOf(AfterCnot(ones, c), 0, args.n_qubits))
        /\ (args.n_qubits = 2 /\ Program(args.gates) = Program(Prepare({0}, 0, 2))) =>
               returned.value = create_multi_qubit_state(2, 2)
        /\ (args.n_qubits = 2 /\ args.gates = PrepareThenCnot({0}, 0, 2)) =>
               returned.value = create_multi_qubit_state(2, 3)

\* ------------------------------------------------------------------- C13
SingleX(i) == <<Node("X", <<i>>, NoParams, 0)>>

\* C13 as stated: X on qubit i of the all-zero state of an n-qubit register
\* leaves amplitude 1 at index 2^i (bit i counted from the least significant
\* bit) and 0 elsewhere.
C13_BitIEqualsQubitI ==
    (returned.fn = "run") =>
        \A i \in 0..(args.n_qubits - 1) :
            args.gates = SingleX(i) =>
                /\ returned.err = "none"
                /\ returned.value = create_multi_qubit_state(args.n_qubits, Pow2(i))

\* C13, amended: X on qubit i of the all-zero state of an n-qubit register
\* leaves amplitude 1 at index 2^(n - 1 - i) (bit n - 1 - i counted from the
\* least significant bit: qubit 0 is the most significant bit) and 0
\* elsewhere.
C13_QubitZeroIsMostSignificant ==
    (returned.fn = "run") =>
        \A i \in 0..(args.n_qubits - 1) :
            args.gates = SingleX(i) =>
                /\ returned.err = "none"
                /\ returned.value =
                       create_multi_qubit_state(args.n_qubits,
                                                Pow2(args.n_qubits - 1 - i))

C13_Witness ==
    /\ returned.fn = "run"
    /\ args.n_qubits = 3
    /\ args.gates = SingleX(0)
    /\ returned.err = "none"
    /\ returned.value = create_multi_qubit_state(3, 4)

\* ------------------------------------------------------------------- C14
SingleQubitKinds == {"X", "Y", "Z", "H", "T", "S", "RX", "RY", "RZ", "PHASE"}
TwoQubitKinds == {"CNOT", "CZ", "SWAP"}
ThreeQubitKinds == {"TOFFOLI"}

IsSquare(matrix, side) ==
    /\ matrix.d = side
    /\ Len(matrix.m) = side
    /\ \A i \in 1..side : Len(matrix.m[i]) = side

DrawnAlone(s) ==
    [j \in 1..Len(sessions[s].outcomes) |->
        Choice(sessions[s].state, np_random.stream[j])]

\* C15: sampling is isolated per session: the outcomes a session's measure
\* calls draw are the ones it draws when no other session measures, whatever
\* measure calls another session makes in between.
C15_SamplingIsolated ==
    \A s \in 1..Len(sessions) : sessions[s].outcomes = DrawnAlone(s)

\* ------------------------------------------------------------------- C16
\* amplitude 1/sqrt(2) at index 0 and at index 2^n - 1, 0 elsewhere
GhzVector(n) ==
    [k |-> 1,
     v |-> [i \in 1..Pow2(n) |-> IF i = 1 \/ i = Pow2(n) THEN One ELSE Zero]]

\* C16: for every n >= 2 the program of create_ghz_state(n) runs without
\* error in a session with the default representation policy and returns a
\* vector of length 2^n whose only nonzero amplitudes are 1/sqrt(2) at index
\* 0 and at index 2^n - 1.
C16_GhzRuns ==
    (returned.fn = "create_ghz_state") =>
        /\ returned.err = "none"
        /\ returned.k = args.n_qubits
        /\ returned.len = Pow2(args.n_qubits)
        /\ args.n_qubits <= MaxQubits => returned.value = GhzVector(args.n_qubits)

\* ------------------------------------------------------------------- C17
\* gates i and i + 1 have the same name in {X, Y, Z, H, CNOT} and identical
\* ordered target lists
CancellingPair(gate_list, i) ==
    /\ i >= 1
    /\ i + 1 <= Len(gate_list)
    /\ gate_list[i].gate_name \in {"X", "Y", "Z", "H", "CNOT"}
    /\ gate_list[i + 1].gate_name = gate_list[i].gate_name
    /\ gate_list[i + 1].qubits = gate_list[i].qubits

\* i is a position the scan stops at: the first one, the one after a kept
\* gate, or the one after a dropped pair
RECURSIVE Scanned(_, _)
Scanned(gate_list, i) ==
    \/ i = 1
    \/ i >= 2 /\ Scanned(gate_list, i - 1) /\ ~CancellingPair(gate_list, i - 1)
    \/ i >= 3 /\ Scanned(gate_list, i - 2) /\ CancellingPair(gate_list, i - 2)

\* the records of the list at the positions of the set, in their order
RECURSIVE SelectAt(_, _, _)
SelectAt(gate_list, positions, i) ==
    IF i > Len(gate_list) THEN << >>
    ELSE (IF i \in positions THEN <<gate_list[i]>> ELSE << >>)
         \o SelectAt(gate_list, positions, i + 1)

IsPairProgram(gate_list) ==
    /\ Len(gate_list) % 2 = 0
    /\ \A j \in 1..(Len(gate_list) \div 2) :
           /\ gate_list[2 * j - 1].gate_name \in {"X", "Y", "Z", "H", "CNOT"}
           /\ gate_list[2 * j].gate_name = gate_list[2 * j - 1].gate_name
           /\ gate_list[2 * j].qubits = gate_list[2 * j - 1].qubits

\* C18: optimize reduces every program that is a concatenation of pairs of
\* identical gates from {X, Y, Z, H, CNOT} on identical targets to the empty
\* sequence, and run(optimize=True) on such a program returns the all-zero
\* basis state (X,X,H,H,Y,Y on one qubit returns [1, 0]).
C18_PairsVanish ==
    /\ (returned.fn = "optimize" /\ IsPairProgram(args.gates)) =>
           returned.value = << >>
    /\ (returned.fn = "run" /\ args.optimize /\ IsPairProgram(args.gates)) =>
           /\ returned.err = "none"
           /\ returned.value = create_multi_qubit_state(args.n_qubits, 0)

C18_Witness ==
    /\ returned.fn = "run"
    /\ args.optimize
    /\ args.n_qubits = 1
    /\ Names(args.gates) = <<"X", "X", "H", "H", "Y", "Y">>
    /\ returned.err = "none"
    /\ returned.value = [k |-> 0, v |-> <<One, Zero>>]

\* ------------------------------------------------------------------- C19
IsRotation(gate_list, i) ==
    /\ gate_list[i].gate_name \in {"RX", "RY", "RZ"}
    /\ Len(gate_list[i].qubits) = 1

\* gates i and j are rotations of the same name on the same single qubit
SameRotation(gate_list, i, j) ==
    /\ IsRotation(gate_list, i)
    /\ gate_list[j].gate_name = gate_list[i].gate_name
    /\ gate_list[j].qubits = gate_list[i].qubits

\* a maximal run of such rotations starts at i, and ends at RunEnd
RunStart(gate_list, i) ==
    /\ IsRotation(gate_list, i)
    /\ i = 1 \/ ~SameRotation(gate_list, i - 1, i)

RunEnd(gate_list, i) ==
    CHOOSE j \in i..Len(gate_list) :
        /\ \A m \in i..j : SameRotation(gate_list, i, m)
        /\ j = Len(gate_list) \/ ~SameRotation(gate_list, i, j + 1)

RECURSIVE AngleSum(_, _, _)
AngleSum(gate_list, i, j) ==
    IF i > j THEN 0
    ELSE ParamGet(gate_list[i].params, "theta") + AngleSum(gate_list, i + 1, j)

\* what the gate at position i contributes to the output: the merged gate of
\* its run if it starts one (none when the reduced sum is zero), nothing if
\* it is inside a run, itself otherwise
Contribution(gate_list, i) ==
    IF RunStart(gate_list, i)
    THEN LET angle == AngleSum(gate_list, i, RunEnd(gate_list, i)) % TwoPi
         IN IF angle = 0 THEN << >>
            ELSE <<Node(gate_list[i].gate_name, gate_list[i].qubits,
                        "theta" :> angle, gate_list[i].depth)>>
    ELSE IF IsRotation(gate_list, i) THEN << >>
    ELSE <<gate_list[i]>>

RECURSIVE Contributions(_, _)
Contributions(gate_list, i) ==
    IF i > Len(gate_list) THEN << >>
    ELSE Contribution(gate_list, i) \o Contributions(gate_list, i + 1)

\* C19: merge_rotations replaces each maximal run of consecutive gates with
\* the same rotation name (RX, RY or RZ) and the same single target qubit by
\* at most one gate of that name on that qubit whose angle is the sum of the
\* run's angles modulo 2 pi (a missing theta counts 0), and by no gate when
\* that angle is zero; all other gates pass through unchanged, in order.
C19_MergeRuns ==
    (returned.fn = "merge_rotations") =>
        /\ returned.value = Contributions(args.gates, 1)
        /\ returned.input = args.gates

\* RX(pi/2), RX(3 pi/2), RX(pi/2) on qubit 0, then H: one RX(pi/2), then H
C19_Witness ==
    /\ returned.fn = "merge_rotations"
    /\ Len(args.gates) = 4
    /\ \A i \in 1..3 : args.gates[i].gate_name = "RX" /\ args.gates[i].qubits = <<0>>
    /\ AngleSum(args.gates, 1, 3) = TwoPi + 1
    /\ args.gates[4].gate_name = "H"
    /\ returned.value = <<Node("RX", <<0>>, Theta(1), 0), args.gates[4]>>

\* ------------------------------------------------------------------- C20
Max(a, b) == IF a > b THEN a ELSE b

\* the smallest register that holds every target of the list
RECURSIVE Width(_, _)
Width(gate_list, i) ==
    IF i > Len(gate_list) THEN 1
    ELSE LET q == gate_list[i].qubits
         IN Max(Max(1 + q[1], 1 + q[Len(q)]), Width(gate_list, i + 1))

\* what a session of that register returns for the list without optimizing
Amplitudes(gate_list, sparse, tn) ==
    LET n == Width(gate_list, 1)
        r == run(gate_list, n, sparse, tn, create_multi_qubit_state(n, 0), FALSE)
    IN [err |-> r.err, state |-> r.state]

C21_CallerRecordsUntouched ==
    (returned.fn \in {"optimize", "cancel_inverse", "merge_rotations",
                      "commute_gates"}) =>
        returned.input = args.gates

\* ------------------------------------------------------------------- C22
\* no adjacent pair with disjoint targets has a later gate deeper than the
\* earlier one
Settled(gate_list) ==
    \A i \in 1..(Len(gate_list) - 1) :
        Range(gate_list[i].qubits) \cap Range(gate_list[i + 1].qubits) = {} =>
            gate_list[i + 1].depth <= gate_list[i].depth

\* C22: commute_gates terminates on every finite gate sequence, whatever
\* integer depths (negative ones too) its records carry, and in the list it
\* returns no adjacent pair with disjoint target sets has a later gate whose
\* depth exceeds the earlier gate's depth.
C22_CommuteTerminatesSettled ==
    /\ <>(returned.fn = "commute_gates")
    /\ [](returned.fn = "commute_gates" =>
              /\ Settled(returned.value)
              /\ returned.value = Records(commute_gates(CopyList(args.gates))))

\* a call that lowered a depth below zero and returned
C22_Witness ==
    /\ returned.fn = "commute_gates"
    /\ Len(args.gates) = 3
    /\ ~Settled(args.gates)
    /\ \E i \in 1..3 : args.gates[i].depth >= 0 /\ returned.value[i].depth < 0
    /\ Settled(returned.value)

\* ------------------------------------------------------------------- C23
\* the named rule applied to the records; a name that is no rule changes
\* nothing
RuleByName(rule_name, gate_list) ==
    IF rule_name = "cancel_inverse"
    THEN Records(cancel_inverse_gates(CopyList(gate_list)))
    ELSE IF rule_name = "merge_rotations"
    THEN Records(merge_rotation_gates(CopyList(gate_list)))
    ELSE IF rule_name = "commute_gates"
    THEN Records(commute_gates(CopyList(gate_list)))
    ELSE gate_list

\* the first r names of the selection applied one after the other, each to
\* the output of the one before
RECURSIVE InListedOrder(_, _, _)
InListedOrder(gate_list, rules, r) ==
    IF r = 0 THEN gate_list
    ELSE RuleByName(rules[r], InListedOrder(gate_list, rules, r - 1))

\* C23: optimize(gates, rules) applies exactly the rules named in rules, each
\* as often as it is listed and in the listed order, each on the output of
\* the one before; a name that is none of the three rules is skipped without
\* error; with rules omitted it applies cancel_inverse, then merge_rotations,
\* then commute_gates.
C23_RulesInListedOrder ==
    /\ (returned.fn = "optimize_rules") =>
           returned.value = InListedOrder(args.gates, args.rules, Len(args.rules))
    /\ (returned.fn = "optimize") =>
           returned.value =
               InListedOrder(args.gates,
                             <<"cancel_inverse", "merge_rotations", "commute_gates">>,
                             3)

\* X, RX(pi/2), RX(3 pi/2), X: merging first lets the two X meet and cancel,
\* cancelling first leaves them
C23_Witness ==
    /\ returned.fn = "optimize_rules"
    /\ Len(args.gates) = 4
    /\ args.rules = <<"merge_rotations", "cancel_inverse">>
    /\ returned.value = << >>
    /\ InListedOrder(args.gates, <<"cancel_inverse", "merge_rotations">>, 2)
           = <<args.gates[1], args.gates[4]>>

\* ------------------------------------------------------------------- C24
\* the depth recorded for qubit q after the first i gates: a gate's depth is
\* 1 + the largest depth recorded for its targets, and becomes the depth of
\* each of them; an untouched qubit has 0
RECURSIVE Recorded(_, _, _)
Recorded(gate_list, i, q) ==
    IF i = 0 THEN 0
    ELSE IF q \in Range(gate_list[i].qubits)
    THEN 1 + SetMax({Recorded(gate_list, i - 1, t) :
                        t \in Range(gate_list[i].qubits)})
    ELSE Recorded(gate_list, i - 1, q)

Touched(gate_list) ==
    UNION {Range(gate_list[i].qubits) : i \in 1..Len(gate_list)}

WithoutDepths(gate_list) ==
    [i \in 1..Len(gate_list) |-> [gate_list[i] EXCEPT !.depth = 0]]

KroneckerEntry(gate, m, n, r, c) ==
    IF \A q \in (0..(n - 1)) \ {m, m + 1} : BitOf(r, q, n) = BitOf(c, q, n)
    THEN gate.m[2 * BitOf(r, m, n) + BitOf(r, m + 1, n) + 1]
               [2 * BitOf(c, m, n) + BitOf(c, m + 1, n) + 1]
    ELSE Zero

KroneckerOperator(gate, m, n) ==
    [k |-> gate.k, d |-> Pow2(n),
     m |-> [r \in 1..Pow2(n) |-> [c \in 1..Pow2(n) |->
              KroneckerEntry(gate, m, n, r - 1, c - 1)]]]

\* C25: for every n >= 2 and every adjacent target pair with lower index m
\* in 0..n-2, apply_two_qubit_gate returns, with use_sparse false and with
\* use_sparse true, the 2^n x 2^n Kronecker product of m identities, the 4x4
\* gate and n - m - 2 identities, in that order.
C25_KroneckerStructure ==
    (/\ returned.fn = "apply_two_qubit_gate"
     /\ Abs(args.control - args.target) = 1) =>
        /\ returned.err = "none"
        /\ returned.value =
               KroneckerOperator(GATE_MAP[args.gate_name],
                                 Min(args.control, args.target), args.n_qubits)

\* ------------------------------------------------------------------- C26
\* the qubits set after cnot(control, target): the target flipped iff the
\* control is set
AfterCnotOn(ones, control, target) ==
    IF control \notin ones THEN ones
    ELSE IF target \in ones THEN ones \ {target}
    ELSE ones \cup {target}

\* C26: for an adjacent pair given in reversed order (control = target + 1),
\* cnot(control, target) on a prepared basis state flips the qubit named
\* target exactly when the qubit named control is 1, so that cnot(1, 0) and
\* cnot(0, 1) act differently on basis states.
C26_ReversedCnot ==
    (returned.fn = "run") =>
        \A ones \in SUBSET (0..(args.n_qubits - 1)), c \in 0..(args.n_qubits - 2) :
            args.gates = PrepareThenReversedCnot(ones, c, args.n_qubits) =>
                /\ returned.err = "none"
                /\ returned.value =
                       create_multi_qubit_state(
                           args.n_qubits,
                           IndexOf(AfterCnotOn(ones, c + 1, c), 0, args.n_qubits))

\* ------------------------------------------------------------------- C27
\* the path the two flags of the info stand for
ReportedPolicy(info) ==
    IF info.use_tensor_network THEN "tensor"
    ELSE IF info.use_sparse THEN "sparse"
    ELSE "dense"

\* the path a run of the probe shows: only the tensor path returns, only the
\* sparse expansion fails on the shape of the first CNOT, only the dense
\* expansion gets to the non-adjacent CNOT(0, 2)
ObservedPolicy(outcome) ==
    IF outcome.err = "none" /\ outcome.k = 2 THEN "tensor"
    ELSE IF outcome.err = "ShapeMismatch" /\ outcome.k = 0 THEN "sparse"
    ELSE IF outcome.err = "UnsupportedTopology" /\ outcome.k = 1 THEN "dense"
    ELSE "none"

\* C27: a session constructed without a use_sparse argument has the sparse
\* policy exactly when its qubit count exceeds 10; a session constructed with
\* use_sparse True or False has that value for every n; and the flags
\* get_circuit_info reports name the path run takes (the tensor path when
\* use_tensor_network is set, the sparse or dense expansion otherwise).
C27_PolicySelection ==
    (returned.fn = "get_circuit_info") =>
        /\ args.use_sparse = "None" =>
               (returned.info.use_sparse <=> args.n_qubits > 10)
        /\ args.use_sparse = "True" => returned.info.use_sparse
        /\ args.use_sparse = "False" => ~returned.info.use_sparse
        /\ returned.info.use_tensor_network = args.use_tensor_network
        /\ args.n_qubits >= 3 =>
               ReportedPolicy(returned.info) = ObservedPolicy(returned)

\* eleven qubits, no use_sparse argument: reported sparse, and the run fails
\* where only the sparse expansion fails
C27_Witness ==
    /\ returned.fn = "get_circuit_info"
    /\ args.n_qubits = 11
    /\ args.use_sparse = "None"
    /\ ~args.use_tensor_network
    /\ returned.info.use_sparse
    /\ ObservedPolicy(returned) = "sparse"

\* ------------------------------------------------------------------- C28
\* bit q of a basis index
IndexBit(index, q) == (index \div Pow2(q)) % 2

\* the indices that agree with the outcome at every measured position
Retained(outcome, positions, len) ==
    {i \in 0..(len - 1) :
        \A j \in 1..Len(positions) :
            IndexBit(i, positions[j]) = IndexBit(outcome, positions[j])}

\* the probability mass of a set of indices, in units of 1 / 2^k
RECURSIVE MassOf(_, _, _)
MassOf(v, kept, i) ==
    IF i = 0 THEN <<0, 0>>
    ELSE LET r == MassOf(v, kept, i - 1)
             t == IF (i - 1) \in kept THEN AbsSq(v[i]) ELSE <<0, 0>>
         IN <<r[1] + t[1], r[2] + t[2]>>

\* C28: for a unit vector and a list of qubits, the vector partial_measure
\* returns is zero at every index that differs from the sampled outcome at a
\* measured position, is the input amplitude over the square root of the
\* retained mass at every other index, and has unit norm; the retained mass
\* is not zero, the outcome being retained; the input vector is as it was.
C28_ProjectAndRenormalise ==
    (returned.fn = "partial_measure") =>
        LET held == args.state
            post == returned.post_state
            kept == Retained(returned.outcome, args.qubit_indices, Len(held.v))
            mass == MassOf(held.v, kept, Len(held.v))
        IN /\ UnitNorm(held)
           /\ post # NoVector
           /\ returned.outcome \in kept
           /\ mass # <<0, 0>>
           /\ mass = <<Pow2(post.k), 0>>
           /\ \A i \in 0..(Len(held.v) - 1) :
                  post.v[i + 1] = IF i \in kept THEN held.v[i + 1] ELSE Zero
           /\ UnitNorm(post)
           /\ returned.state = held

\* a measurement that removes half of the mass: the outcome is kept, another
\* index of the support is projected out
C28_Witness ==
    /\ returned.fn = "partial_measure"
    /\ Len(args.qubit_indices) > 0
    /\ \E i \in Support(args.state) :
           /\ i # returned.outcome
           /\ returned.post_state.v[i + 1] = Zero
    /\ returned.post_state.k < args.state.k
    /\ UnitNorm(returned.post_state)

\* ------------------------------------------------------------------- C29
\* C29: partial_measure reads qubit q as gate application writes it: after X
\* on qubit q alone on n >= 2 qubits, partial_measure on [q] returns 1 and on
\* any other single qubit 0; for several qubits the value packs the measured
\* qubits' bits in ascending qubit order.
C29_SameQubitMapping ==
    (returned.fn = "partial_measure" /\ args.n_qubits >= 2) =>
        LET sorted == Sorted(args.qubit_indices) IN
        /\ \A q \in 0..(args.n_qubits - 1) :
               (args.state = MeasuredState(<<Node("X", <<q>>, NoParams, 0)>>,
                                           args.n_qubits)
                /\ Len(args.qubit_indices) = 1)
               => returned.measured_value
                      = (IF args.qubit_indices[1] = q THEN 1 ELSE 0)
        /\ \A i \in 1..Len(sorted) :
               (returned.measured_value \div Pow2(i - 1)) % 2
                   = BitOf(returned.outcome, sorted[i], args.n_qubits)

\* ------------------------------------------------------------------- C30
\* C30: tensor_network_simulator with use_mps=True returns, for every n and
\* gate list, the vector the call with use_mps=False returns, and does not
\* raise.
C30_MpsFallsBack ==
    (returned.fn = "tensor_network_simulator" /\ args.use_mps) =>
        /\ returned.err = "none"
        /\ returned.value
               = tensor_network_simulator(args.n_qubits, args.gates, FALSE).value

====
